---- MODULE Spec2Model ----
(***************************************************************************)
(* Semantic indexing and query engine: EmbeddingManager (embedding cache,  *)
(* retry, zero fallback, batching, find_similar), SemanticQueryEngine      *)
(* (intent routing and handlers) and VectorGraphDatabase (MERGE-based      *)
(* store operations).  Each component has its own specification over the   *)
(* shared variables; a component's specification leaves the variables of   *)
(* the other components unchanged.                                         *)
(***************************************************************************)
EXTENDS Integers, Sequences, FiniteSets, TLC

VARIABLES
    model_type,       \* EmbeddingManager.model_type
    embedding_cache,  \* EmbeddingManager.embedding_cache: cache key -> vector
    provider,         \* the provider outcomes the last call ran against (environment)
    op,               \* the last call: its name and arguments
    ret,              \* the vector returned by the last generate_embedding
    batch_ret,        \* the list returned by the last generate_batch_embeddings
    outcome,          \* "idle", "returned" or "raised"
    events,           \* provider calls and sleeps made by the last call, in order
    hist,             \* history: for each (text, context_type) the first vector returned
    nocache,          \* history: what the last generate_embedding returns without a cache
    callers,          \* the threads inside generate_embedding: position and local values
    fs_in,            \* find_similar: query_embedding, embeddings, top_k, threshold
    fs_out,           \* find_similar: the list returned
    fs_done,          \* find_similar has returned
    rq_in,            \* answer_question: question, context, and what the collaborators hold
    rq_handlers,      \* answer_question: the handlers invoked, in order
    rq_calls,         \* answer_question: the collaborator calls made, in order
    rq_answer,        \* answer_question: the Answer returned
    rq_outcome,       \* "asked", then "returned" or "raised", or the status of /ask-semantic
    graph,            \* the store: its nodes by label and its relationships by type
    st_last,          \* the last store call: its name and what it did to its entity
    driver,           \* VectorGraphDatabase.driver: "connected" or "none"
    tx,               \* the write transaction in progress, with its uncommitted writes
    qry_in,           \* the last query operation: its name and arguments
    qry_out           \* what the last query operation returned, or that it raised

\* What the EmbeddingManager records of its last call made alone.
embCallVarsOfLastCall == <<provider, op, ret, batch_ret, outcome, events, hist, nocache>>

embVars ==
    <<model_type, embedding_cache, provider, op, ret, batch_ret, outcome, events, hist,
      nocache, callers>>

findVars == <<fs_in, fs_out, fs_done>>

routerVars == <<rq_in, rq_handlers, rq_calls, rq_answer, rq_outcome>>

storeVars == <<graph, st_last, driver, tx>>

queryVars == <<qry_in, qry_out>>

\* The variables of the components other than the EmbeddingManager's cache.
restVars == <<findVars, routerVars, storeVars, queryVars>>

vars == <<embVars, findVars, routerVars, storeVars, queryVars>>

Min(a, b) == IF a <= b THEN a ELSE b

Max(a, b) == IF a >= b THEN a ELSE b

(***************************************************************************)
(* Inputs.  A text is one of a few sample texts; what the code reads of a  *)
(* text here is its identity and its length.  The sample texts are         *)
(* single-line texts without comment lines and without category keywords:  *)
(* text 1 is short, text 2 is longer than every truncation length.         *)
(***************************************************************************)
Texts == {1, 2}

\* The empty text, "".
EmptyText == 0

TextLen(t) == IF t = EmptyText THEN 0 ELSE IF t = 1 THEN 10 ELSE 9000

ContextTypes == {"code", "commit", "general"}

ModelTypes == {"openai", "sentence-transformer"}

\* Length of the provider outcome scripts the environment may set.
MaxScript == 2

\* Longest input list of generate_batch_embeddings.
MaxTexts == 3

\* Number of distinct cache keys a run may fill (the cache itself is unbounded).
MaxCacheKeys == 2

IsOpenAI(mt) == mt \in {"openai", "openai-large", "openai-ada"}

IsLocal(mt) == mt \in {"sentence-transformer", "code-bert"}

embedding_dim(mt) ==
    CASE mt = "openai" -> 1536
      [] mt = "openai-large" -> 3072
      [] mt = "openai-ada" -> 1536
      [] mt = "sentence-transformer" -> 384
      [] OTHER -> 768

\* The dimension of the vectors the model behind model_type produces.
NativeDim(mt) == embedding_dim(mt)

(***************************************************************************)
(* Vectors.  A vector is identified by its dimension and by the input the  *)
(* provider embedded: the text, the context type whose preprocessing and   *)
(* prefix were applied, and the length the input was cut to.  The zero     *)
(* fallback vector embeds no input.                                        *)
(***************************************************************************)
\* The direction of a vector, for the similarities computed on it, is a short
\* integer vector xs: the cosine of two vectors of one dimension is the cosine
\* of their directions.  The provider's vector of text 1 points along
\* <<1, 0, 0, 0>>, that of text 2 along <<1, 1, 0, 0>>.
Direction(t) == IF t = 1 THEN <<1, 0, 0, 0>> ELSE <<1, 1, 0, 0>>

ZeroVector(mt) ==
    [dim |-> embedding_dim(mt), text |-> 0, ctx |-> "zero", len |-> 0, xs |-> <<0, 0, 0, 0>>]

NoVector == [dim |-> 0, text |-> 0, ctx |-> "none", len |-> 0, xs |-> <<0, 0, 0, 0>>]

ProviderVector(mt, input) ==
    [dim |-> NativeDim(mt), text |-> input.text, ctx |-> input.ctx, len |-> input.len,
     xs |-> Direction(input.text)]

\* "if self.model_type == 'openai' and len(embedding) > 1536: embedding[:1536]"
TruncateDim(mt, v) ==
    IF mt = "openai" /\ v.dim > 1536 THEN [v EXCEPT !.dim = 1536] ELSE v

(***************************************************************************)
(* The provider.  Its coming outcomes are a script (TRUE: the call         *)
(* succeeds, FALSE: it raises), consumed one entry per call; once the      *)
(* script is used up every call has the outcome "rest".                    *)
(***************************************************************************)
Scripts == UNION {[1..n -> BOOLEAN] : n \in 0..MaxScript}

\* A script that ends with the outcome "rest" behaves as the script without
\* that entry: the environment is drawn from the scripts that do not.
Providers ==
    {p \in [script : Scripts, rest : BOOLEAN] :
        p.script = <<>> \/ p.script[Len(p.script)] # p.rest}

ProviderUp == [script |-> <<>>, rest |-> TRUE]

CallSucceeds(p) == IF p.script # <<>> THEN Head(p.script) ELSE p.rest

AfterCall(p) == IF p.script # <<>> THEN [p EXCEPT !.script = Tail(@)] ELSE p

(***************************************************************************)
(* Preprocessing, by the length of its result.                             *)
(***************************************************************************)
\* Character budget of _preprocess_code.
CodeBudget == 1000

\* Character budget of _preprocess_commit_message.
CommitBudget == 500

\* Safety length of the retry and of the batch inputs.
SafetyLen == 8000

\* No line of a sample text is blank or a comment: every character is kept.
preprocess_code(n) == IF n > CodeBudget THEN CodeBudget ELSE n

\* f"{title} {' '.join(keywords)} {message}"[:500], title = message, no keyword
preprocess_commit_message(n) == Min(n + 1 + 0 + 1 + n, CommitBudget)

preprocess_by_type(n, c) ==
    CASE c = "code" -> preprocess_code(n)
      [] c = "commit" -> preprocess_commit_message(n)
      [] OTHER -> n

\* Len("Code: ") and Len("Commit message: ")
PrefixLen(c) ==
    CASE c = "code" -> 6
      [] c = "commit" -> 16
      [] OTHER -> 0

\* What a call does to the outside, in order: a provider call for one input
\* (embed) or for a chunk of len inputs starting at position idx (embed_batch),
\* with its outcome ok, or a time.sleep.
EmbedEvent(input, i, ok) ==
    [ev |-> "embed", text |-> input.text, ctx |-> input.ctx, len |-> input.len,
     idx |-> i, ok |-> ok]

SleepEvent == [ev |-> "sleep", text |-> 0, ctx |-> "none", len |-> 0, idx |-> 0, ok |-> TRUE]

BatchEvent(c, size, i, ok) ==
    [ev |-> "embed_batch", text |-> 0, ctx |-> c, len |-> size, idx |-> i, ok |-> ok]

(***************************************************************************)
(* generate_embedding                                                      *)
(***************************************************************************)
\* hashlib.md5(f"{text}{context_type}{self.model_type}"): one key per triple.
CacheKey(t, c, mt) == <<t, c, mt>>

CacheHitNever(cache, key) == FALSE

CacheHit(cache, key) == key \in DOMAIN cache

\* self.embedding_cache[cache_key] = embedding
CacheStore(cache, key, v) ==
    [k \in DOMAIN cache \cup {key} |-> IF k = key THEN v ELSE cache[k]]

EmptyCache == [k \in {} |-> NoVector]

\* The body of generate_embedding(t, c) run on cache and provider p; i is the
\* position of t in the caller's list (0: a direct call).  The result: the
\* vector returned (or raised), the cache and the provider afterwards, and the
\* provider calls and sleeps made.
OpenAIRetryUncut(mt, p1, in1, i) ==
    [emb |-> IF CallSucceeds(p1) THEN TruncateDim(mt, ProviderVector(mt, in1))
             ELSE ZeroVector(mt),
     provider |-> AfterCall(p1),
     events |-> <<EmbedEvent(in1, i, FALSE), SleepEvent, EmbedEvent(in1, i, CallSucceeds(p1))>>]

\* The except branch of generate_embedding: time.sleep(1), one more call with
\* text[:8000], and [0.0] * self.embedding_dim when that call fails too.
OpenAIRetryOnce(mt, p1, in1, i) ==
    LET in2 == [in1 EXCEPT !.len = Min(in1.len, SafetyLen)]
    IN  [emb |-> IF CallSucceeds(p1) THEN TruncateDim(mt, ProviderVector(mt, in2))
                 ELSE ZeroVector(mt),
         provider |-> AfterCall(p1),
         events |-> <<EmbedEvent(in1, i, FALSE), SleepEvent,
                      EmbedEvent(in2, i, CallSucceeds(p1))>>]

generate_embedding(mt, cache, p, t, c, i) ==
    LET key == CacheKey(t, c, mt)
        n == preprocess_by_type(TextLen(t), c)
    IN  IF CacheHit(cache, key)
        THEN [ret |-> cache[key], raised |-> FALSE, cache |-> cache,
              provider |-> p, events |-> <<>>]
        ELSE IF IsLocal(mt)
        THEN LET in0 == [text |-> t, ctx |-> c, len |-> n]
             IN  IF CallSucceeds(p)
                 THEN [ret |-> ProviderVector(mt, in0), raised |-> FALSE,
                       cache |-> CacheStore(cache, key, ProviderVector(mt, in0)),
                       provider |-> AfterCall(p), events |-> <<EmbedEvent(in0, i, TRUE)>>]
                 ELSE [ret |-> NoVector, raised |-> TRUE, cache |-> cache,
                       provider |-> AfterCall(p), events |-> <<EmbedEvent(in0, i, FALSE)>>]
        ELSE LET in1 == [text |-> t, ctx |-> c, len |-> n + PrefixLen(c)]
                 r == IF CallSucceeds(p)
                      THEN [emb |-> TruncateDim(mt, ProviderVector(mt, in1)),
                            provider |-> AfterCall(p),
                            events |-> <<EmbedEvent(in1, i, TRUE)>>]
                      ELSE OpenAIRetryOnce(mt, AfterCall(p), in1, i)
             IN  [ret |-> r.emb, raised |-> FALSE,
                  cache |-> CacheStore(cache, key, r.emb),
                  provider |-> r.provider, events |-> r.events]

(***************************************************************************)
(* generate_batch_embeddings                                               *)
(***************************************************************************)
\* Stands for batch_size = 100, scaled to the lists the model enumerates.
batch_size == 2

\* The text the batch sends for t: preprocessed, prefixed, cut to the safety length.
ProcessedText(t, c) ==
    [text |-> t, ctx |-> c,
     len |-> Min(preprocess_by_type(TextLen(t), c) + PrefixLen(c), SafetyLen)]

RECURSIVE FallbackItems(_, _, _, _, _, _)
\* [self.generate_embedding(text, context_type) for text in texts], from position i on
FallbackItems(mt, cache, p, texts, c, i) ==
    IF i > Len(texts)
    THEN [ret |-> <<>>, raised |-> FALSE, cache |-> cache, provider |-> p, events |-> <<>>]
    ELSE LET g == generate_embedding(mt, cache, p, texts[i], c, i)
             r == FallbackItems(mt, g.cache, g.provider, texts, c, i + 1)
         IN  [ret |-> <<g.ret>> \o r.ret, raised |-> FALSE, cache |-> r.cache,
              provider |-> r.provider, events |-> g.events \o r.events]

BatchFallbackAppend(mt, cache, p, texts, c, all_embeddings) ==
    LET f == FallbackItems(mt, cache, p, texts, c, 1)
    IN  [f EXCEPT !.ret = all_embeddings \o @]

\* The except branch: "return [self.generate_embedding(text, context_type) for
\* text in texts]"; all_embeddings, the vectors of the chunks done, is dropped.
BatchFallback(mt, cache, p, texts, c, all_embeddings) ==
    FallbackItems(mt, cache, p, texts, c, 1)

RECURSIVE ChunkLoop(_, _, _, _, _, _, _)
\* for i in range(0, len(processed_texts), batch_size), from offset i on
ChunkLoop(mt, cache, p, texts, c, i, all_embeddings) ==
    IF i >= Len(texts)
    THEN [ret |-> all_embeddings, raised |-> FALSE, cache |-> cache, provider |-> p,
          events |-> <<>>]
    ELSE LET size == Min(batch_size, Len(texts) - i)
         IN  IF CallSucceeds(p)
             THEN LET batch_embeddings ==
                          [j \in 1..size |->
                              TruncateDim(mt, ProviderVector(mt, ProcessedText(texts[i + j], c)))]
                      pause == IF i + batch_size < Len(texts) THEN <<SleepEvent>> ELSE <<>>
                      r == ChunkLoop(mt, cache, AfterCall(p), texts, c, i + batch_size,
                                     all_embeddings \o batch_embeddings)
                  IN  [r EXCEPT !.events = <<BatchEvent(c, size, i, TRUE)>> \o pause \o @]
             ELSE LET f == BatchFallback(mt, cache, AfterCall(p), texts, c, all_embeddings)
                  IN  [f EXCEPT !.events = <<BatchEvent(c, size, i, FALSE)>> \o @]

generate_batch_embeddings(mt, cache, p, texts, c) ==
    IF IsLocal(mt)
    THEN LET n == Len(texts)
         IN  IF CallSucceeds(p)
             THEN [ret |-> [j \in 1..n |->
                               ProviderVector(mt, [text |-> texts[j], ctx |-> c,
                                   len |-> preprocess_by_type(TextLen(texts[j]), c)])],
                   raised |-> FALSE, cache |-> cache, provider |-> AfterCall(p),
                   events |-> <<BatchEvent(c, n, 0, TRUE)>>]
             ELSE [ret |-> <<>>, raised |-> TRUE, cache |-> cache, provider |-> AfterCall(p),
                   events |-> <<BatchEvent(c, n, 0, FALSE)>>]
    ELSE ChunkLoop(mt, cache, p, texts, c, 0, <<>>)

(***************************************************************************)
(* The EmbeddingManager as a state machine.                                *)
(***************************************************************************)
TextLists == UNION {[1..n -> Texts] : n \in 0..MaxTexts}

NoOp == [name |-> "none", texts |-> <<>>, ctx |-> "none", prior |-> FALSE]

NoResult == [ret |-> NoVector, raised |-> FALSE]

\* The threads that call generate_embedding on the one EmbeddingManager.
Callers == {"t1", "t2"}

\* A thread outside generate_embedding.
NoCall == [pc |-> "idle", text |-> EmptyText, ctx |-> "none", embedding |-> NoVector]

EmbInit ==
    /\ model_type \in ModelTypes
    /\ embedding_cache = EmptyCache
    /\ provider = ProviderUp
    /\ op = NoOp
    /\ ret = NoVector
    /\ batch_ret = <<>>
    /\ outcome = "idle"
    /\ events = <<>>
    /\ hist = [k \in {} |-> NoVector]
    /\ nocache = NoResult
    /\ callers = [t \in Callers |-> NoCall]

KeysOf(texts, c) == {CacheKey(texts[j], c, model_type) : j \in 1..Len(texts)}

Record(h, texts, c, vecs) ==
    [k \in DOMAIN h \cup {<<texts[j], c>> : j \in 1..Len(texts)} |->
        IF k \in DOMAIN h THEN h[k]
        ELSE vecs[CHOOSE j \in 1..Len(texts) : <<texts[j], c>> = k]]

\* generate_embedding(t, c), called while the provider behaves as p.
GenerateEmbedding(t, c, p) ==
    LET g == generate_embedding(model_type, embedding_cache, p, t, c, 0)
        fresh == generate_embedding(model_type, EmptyCache, p, t, c, 0)
    IN  /\ outcome = "idle"
        /\ Cardinality(DOMAIN embedding_cache \cup KeysOf(<<t>>, c)) <= MaxCacheKeys
        /\ embedding_cache' = g.cache
        /\ provider' = p
        /\ op' = [name |-> "generate_embedding", texts |-> <<t>>, ctx |-> c,
                  prior |-> <<t, c>> \in DOMAIN hist]
        /\ ret' = g.ret
        /\ batch_ret' = <<>>
        /\ outcome' = IF g.raised THEN "raised" ELSE "returned"
        /\ events' = g.events
        /\ hist' = IF g.raised THEN hist ELSE Record(hist, <<t>>, c, <<g.ret>>)
        /\ nocache' = [ret |-> fresh.ret, raised |-> fresh.raised]
        /\ UNCHANGED <<model_type, callers, restVars>>

\* generate_batch_embeddings(texts, c), called while the provider behaves as p.
GenerateBatchEmbeddings(texts, c, p) ==
    LET b == generate_batch_embeddings(model_type, embedding_cache, p, texts, c)
    IN  /\ outcome = "idle"
        /\ Cardinality(DOMAIN embedding_cache \cup KeysOf(texts, c)) <= MaxCacheKeys
        /\ embedding_cache' = b.cache
        /\ provider' = p
        /\ op' = [name |-> "generate_batch_embeddings", texts |-> texts, ctx |-> c,
                  prior |-> FALSE]
        /\ ret' = NoVector
        /\ batch_ret' = b.ret
        /\ outcome' = IF b.raised THEN "raised" ELSE "returned"
        /\ events' = b.events
        /\ hist' = hist
        /\ nocache' = NoResult
        /\ UNCHANGED <<model_type, callers, restVars>>

\* The caller takes the result (or the exception) of the call: the manager is
\* ready for the next call.  The calls are synchronous, one at a time.
Return ==
    /\ outcome # "idle"
    /\ op' = NoOp
    /\ ret' = NoVector
    /\ batch_ret' = <<>>
    /\ outcome' = "idle"
    /\ events' = <<>>
    /\ provider' = ProviderUp
    /\ nocache' = NoResult
    /\ UNCHANGED <<model_type, embedding_cache, hist, callers, restVars>>

FindIdle ==
    /\ fs_in = [query |-> <<>>, embeddings |-> <<>>, top_k |-> 0,
                threshold |-> [dot |-> 0, nn |-> 1]]
    /\ fs_out = <<>>
    /\ fs_done = TRUE

NoAnswer ==
    [question |-> <<>>, answer_type |-> "none",
     summary |-> [found |-> 0, recommendations |-> 0], narrative |-> "none"]

RouterIdle ==
    /\ rq_in = [question |-> <<>>, context |-> {}, llm |-> "none", matches |-> 0, rows |-> 0]
    /\ rq_handlers = <<>>
    /\ rq_calls = <<>>
    /\ rq_answer = NoAnswer
    /\ rq_outcome = "returned"

\* The store before anything is stored.
EmptyGraph ==
    [Repository |-> {}, Author |-> {}, Commit |-> {}, File |-> {}, Change |-> {},
     PullRequest |-> {},
     HAS_COMMIT |-> {}, AUTHORED |-> {}, CONTAINS_CHANGE |-> {}, MODIFIES |-> {},
     HAS_PR |-> {}, INCLUDES |-> {}]

NoStoreCall == [name |-> "none", did |-> "nothing", raised |-> FALSE]

\* No write transaction is open.
NoTx == [open |-> FALSE, call |-> "none", graph |-> EmptyGraph, todo |-> <<>>]

StoreIdle ==
    /\ graph = EmptyGraph
    /\ st_last = NoStoreCall
    /\ driver = "connected"
    /\ tx = NoTx

NoQuery == [name |-> "none"]

NoQueryResult == [done |-> FALSE, raised |-> FALSE, rows |-> <<>>, compared |-> {}]

QueryIdle ==
    /\ qry_in = NoQuery
    /\ qry_out = NoQueryResult

Init == EmbInit /\ FindIdle /\ RouterIdle /\ StoreIdle /\ QueryIdle

Next ==
    \/ \E t \in Texts, c \in ContextTypes, p \in Providers : GenerateEmbedding(t, c, p)
    \/ Return

Spec == Init /\ [][Next]_vars

BatchNext ==
    \/ \E texts \in TextLists, c \in ContextTypes, p \in Providers :
           GenerateBatchEmbeddings(texts, c, p)
    \/ Return

SpecBatch == Init /\ [][BatchNext]_vars

(***************************************************************************)
(* calculate_similarity and find_similar.  Vectors are short integer        *)
(* vectors.  A similarity dot / sqrt(nn) is kept exact as the pair          *)
(* (dot, nn), nn > 0, and compared without taking the root (real            *)
(* arithmetic: the rounding of the floating-point division is not           *)
(* modelled).                                                               *)
(***************************************************************************)
RECURSIVE DotFrom(_, _, _)
DotFrom(a, b, i) == IF i > Len(a) THEN 0 ELSE a[i] * b[i] + DotFrom(a, b, i + 1)

\* np.dot(vec1, vec2)
Dot(a, b) == DotFrom(a, b, 1)

\* np.linalg.norm(vec) ** 2; the norm is 0 exactly when this is 0
NormSq(a) == Dot(a, a)

ZeroSimilarity == [dot |-> 0, nn |-> 1]

calculate_similarity(a, b) ==
    IF NormSq(a) = 0 \/ NormSq(b) = 0 THEN ZeroSimilarity
    ELSE [dot |-> Dot(a, b), nn |-> NormSq(a) * NormSq(b)]

\* s >= t for s = s.dot / sqrt(s.nn), t = t.dot / sqrt(t.nn)
SimGeq(s, t) ==
    CASE s.dot >= 0 /\ t.dot <= 0 -> TRUE
      [] s.dot < 0 /\ t.dot >= 0 -> FALSE
      [] s.dot >= 0 /\ t.dot > 0 -> s.dot * s.dot * t.nn >= t.dot * t.dot * s.nn
      [] OTHER -> s.dot * s.dot * t.nn <= t.dot * t.dot * s.nn

SimEq(s, t) == SimGeq(s, t) /\ SimGeq(t, s)

SimGt(s, t) == ~SimGeq(t, s)

QualifiesAlways(similarity, threshold) == TRUE

\* if similarity >= threshold
Qualifies(similarity, threshold) == SimGeq(similarity, threshold)

RECURSIVE CollectFrom(_, _, _, _)
\* The loop of find_similar from candidate i on; a candidate's item_id is its
\* position in the list.
CollectFrom(query, embeddings, threshold, i) ==
    IF i > Len(embeddings) THEN <<>>
    ELSE LET similarity == calculate_similarity(query, embeddings[i])
             rest == CollectFrom(query, embeddings, threshold, i + 1)
         IN  IF Qualifies(similarity, threshold)
             THEN <<[id |-> i, similarity |-> similarity]>> \o rest
             ELSE rest

\* seq with x put behind the last element whose key is >= x's (stable, descending)
InsertDescending(seq, x) ==
    LET ahead == {j \in 1..Len(seq) : SimGeq(seq[j].similarity, x.similarity)}
        n == IF ahead = {} THEN 0 ELSE CHOOSE j \in ahead : \A k \in ahead : k <= j
    IN  SubSeq(seq, 1, n) \o <<x>> \o SubSeq(seq, n + 1, Len(seq))

\* seq with x put behind the last element whose key is <= x's (stable, ascending)
InsertAscending(seq, x) ==
    LET ahead == {j \in 1..Len(seq) : SimGeq(x.similarity, seq[j].similarity)}
        n == IF ahead = {} THEN 0 ELSE CHOOSE j \in ahead : \A k \in ahead : k <= j
    IN  SubSeq(seq, 1, n) \o <<x>> \o SubSeq(seq, n + 1, Len(seq))

RECURSIVE InsertAllAscending(_, _)
InsertAllAscending(seq, done) ==
    IF seq = <<>> THEN done
    ELSE InsertAllAscending(Tail(seq), InsertAscending(done, Head(seq)))

Reverse(seq) == [j \in 1..Len(seq) |-> seq[Len(seq) + 1 - j]]

SortAscendingThenReverse(seq) == Reverse(InsertAllAscending(seq, <<>>))

RECURSIVE InsertAllDescending(_, _)
InsertAllDescending(seq, done) ==
    IF seq = <<>> THEN done
    ELSE InsertAllDescending(Tail(seq), InsertDescending(done, Head(seq)))

\* similarities.sort(key=lambda x: x[1], reverse=True): the sort is stable,
\* elements of equal similarity keep their order.
SortBySimilarityDescending(seq) == InsertAllDescending(seq, <<>>)

\* seq[:k]
SliceTo(seq, k) ==
    IF k >= 0 THEN SubSeq(seq, 1, Min(k, Len(seq)))
    ELSE SubSeq(seq, 1, Max(Len(seq) + k, 0))

find_similar(query, embeddings, top_k, threshold) ==
    SliceTo(SortBySimilarityDescending(CollectFrom(query, embeddings, threshold, 1)), top_k)

\* Longest candidate list of find_similar.
MaxCands == 3

QueryVectors == {<<1, 0>>, <<1, 1>>, <<0, 0>>}

CandidateVectors == {<<0, 0>>, <<1, 0>>, <<1, 1>>, <<0, 1>>, <<-1, 0>>}

CandidateLists == UNION {[1..n -> CandidateVectors] : n \in 0..MaxCands}

\* 0.0 (the default), 1/2, sqrt(1/2) (the similarity of <<1,0>> and <<1,1>>), -1/2
Thresholds ==
    {[dot |-> 0, nn |-> 1], [dot |-> 1, nn |-> 4], [dot |-> 1, nn |-> 2], [dot |-> -1, nn |-> 4]}

TopKs == -1..MaxCands

FindInit ==
    /\ fs_in \in [query : QueryVectors, embeddings : CandidateLists, top_k : TopKs,
                  threshold : Thresholds]
    /\ fs_out = <<>>
    /\ fs_done = FALSE

FindSimilar ==
    /\ ~fs_done
    /\ fs_out' = find_similar(fs_in.query, fs_in.embeddings, fs_in.top_k, fs_in.threshold)
    /\ fs_done' = TRUE
    /\ UNCHANGED <<fs_in, embVars, routerVars, storeVars, queryVars>>

EmbIdle == EmbInit /\ model_type = "openai"

FindNext == FindSimilar

InitFind == EmbIdle /\ FindInit /\ RouterIdle /\ StoreIdle /\ QueryIdle

SpecFind == InitFind /\ [][FindNext]_vars

(***************************************************************************)
(* SemanticQueryEngine.answer_question.  A question is a sequence of        *)
(* characters; "keyword in question" is the substring test.                 *)
(***************************************************************************)
\* keyword in question
Contains(question, keyword) ==
    \E i \in 1..(Len(question) - Len(keyword) + 1) :
        SubSeq(question, i, i + Len(keyword) - 1) = keyword

\* str.lower, on the capital letters the sample questions use
LowerChar(c) ==
    CASE c = "F" -> "f"
      [] c = "W" -> "w"
      [] OTHER -> c

\* question.lower()
Lower(question) == [i \in 1..Len(question) |-> LowerChar(question[i])]

semantic_keywords ==
    <<<<"s", "i", "m", "i", "l", "a", "r">>,
      <<"l", "i", "k", "e">>,
      <<"r", "e", "l", "a", "t", "e", "d">>,
      <<"s", "a", "m", "e", " ", "a", "s">>,
      <<"c", "o", "m", "p", "a", "r", "a", "b", "l", "e">>>>

evolution_keywords ==
    <<<<"e", "v", "o", "l", "v", "e">>,
      <<"c", "h", "a", "n", "g", "e", " ", "o", "v", "e", "r", " ", "t", "i", "m", "e">>,
      <<"h", "i", "s", "t", "o", "r", "y">>,
      <<"p", "r", "o", "g", "r", "e", "s", "s", "i", "o", "n">>,
      <<"t", "i", "m", "e", "l", "i", "n", "e">>,
      <<"d", "r", "i", "f", "t">>,
      <<"t", "r", "a", "n", "s", "f", "o", "r", "m">>>>

impact_keywords ==
    <<<<"i", "m", "p", "a", "c", "t">>,
      <<"a", "f", "f", "e", "c", "t">>,
      <<"c", "o", "n", "s", "e", "q", "u", "e", "n", "c", "e">>,
      <<"r", "e", "s", "u", "l", "t">>,
      <<"c", "a", "u", "s", "e">>>>

pattern_keywords ==
    <<<<"p", "a", "t", "t", "e", "r", "n">>,
      <<"t", "r", "e", "n", "d">>,
      <<"c", "o", "m", "m", "o", "n">>,
      <<"f", "r", "e", "q", "u", "e", "n", "t">>,
      <<"t", "y", "p", "i", "c", "a", "l">>>>

collab_keywords ==
    <<<<"w", "h", "o">>,
      <<"a", "u", "t", "h", "o", "r">>,
      <<"c", "o", "n", "t", "r", "i", "b", "u", "t", "o", "r">>,
      <<"t", "e", "a", "m">>,
      <<"c", "o", "l", "l", "a", "b", "o", "r", "a", "t", "e">>>>

\* any(keyword in question for keyword in keywords)
AnyKeywordIn(keywords, question) ==
    \E k \in 1..Len(keywords) : Contains(question, keywords[k])

is_semantic_query(question) == AnyKeywordIn(semantic_keywords, question)

is_evolution_query(question) == AnyKeywordIn(evolution_keywords, question)

is_impact_query(question) == AnyKeywordIn(impact_keywords, question)

is_pattern_query(question) == AnyKeywordIn(pattern_keywords, question)

is_collaboration_query(question) == AnyKeywordIn(collab_keywords, question)

DispatchImpactFirst(question) ==
    LET question_lower == Lower(question)
    IN  IF is_semantic_query(question_lower) THEN "semantic"
        ELSE IF is_impact_query(question_lower) THEN "impact"
        ELSE IF is_evolution_query(question_lower) THEN "evolution"
        ELSE IF is_pattern_query(question_lower) THEN "pattern"
        ELSE IF is_collaboration_query(question_lower) THEN "collaboration"
        ELSE "general"

\* The if/elif chain of answer_question: the handler the question goes to.
Dispatch(question) ==
    LET question_lower == Lower(question)
    IN  IF is_semantic_query(question_lower) THEN "semantic"
        ELSE IF is_evolution_query(question_lower) THEN "evolution"
        ELSE IF is_impact_query(question_lower) THEN "impact"
        ELSE IF is_pattern_query(question_lower) THEN "pattern"
        ELSE IF is_collaboration_query(question_lower) THEN "collaboration"
        ELSE "general"

(***************************************************************************)
(* The collaborators of the handlers.  The store is reachable; what it      *)
(* holds is given by the numbers of rows its queries return: matches rows   *)
(* for semantic_search_commits, rows rows for each other query.  The text   *)
(* generator (LLMCodeAnalyzer.llm) is "none" (no API key: self.llm is       *)
(* None), "up" (predict answers) or "failing" (predict raises).             *)
(***************************************************************************)
LLMStates == {"none", "up", "failing"}

\* The type of a value: c.timestamp is set by datetime($timestamp), so the
\* store returns a temporal value for it, not a string.
StoredTimestampType == "DateTime"

\* value[:n] is defined for strings; a temporal value is not subscriptable.
Sliceable(type) == type = "str"

\* One row of semantic_search_commits, by the types of its values.
SearchRow == [message |-> "str", type |-> "str", timestamp |-> StoredTimestampType]

SearchRows(n) == [j \in 1..n |-> SearchRow]

\* The commits_data entry _handle_general_query builds from a result row.
CommitsDataEntry(row) == [message |-> row.message, type |-> row.type, timestamp |-> row.timestamp]

\* LLMCodeAnalyzer.generate_change_narrative: "basic", "llm", or "TypeError"
\* when the summaries cannot be built (the slices are made before the try).
generate_change_narrative(commits, llm) ==
    IF llm = "none" THEN "basic"
    ELSE IF \E j \in 1..Len(commits) :
                ~Sliceable(commits[j].message) \/ ~Sliceable(commits[j].timestamp)
    THEN "TypeError"
    ELSE IF llm = "up" THEN "llm"
    ELSE "basic"

\* One row of _get_recent_changes, by the types of its values.
RecentChangeRow == [commit_message |-> "str", file_path |-> "str", change_type |-> "str"]

RecentChangeRows(n) == [j \in 1..n |-> RecentChangeRow]

\* LLMCodeAnalyzer.analyze_architecture_impact: whether it raises (the
\* summaries cannot be built) and the number of recommendations in its result
\* (the basic analysis has none).
analyze_architecture_impact(changes, llm, llm_recommendations) ==
    IF llm = "none" THEN [raised |-> FALSE, recommendations |-> 0]
    ELSE IF \E j \in 1..Len(changes) : ~Sliceable(changes[j].commit_message)
    THEN [raised |-> TRUE, recommendations |-> 0]
    ELSE IF llm = "up" THEN [raised |-> FALSE, recommendations |-> llm_recommendations]
    ELSE [raised |-> FALSE, recommendations |-> 0]

Answer(question, answer_type, found, recommendations, narrative) ==
    [question |-> question, answer_type |-> answer_type,
     summary |-> [found |-> found, recommendations |-> recommendations],
     narrative |-> narrative]

Returned(answer, calls) == [raised |-> FALSE, answer |-> answer, calls |-> calls]

Raised(calls) == [raised |-> TRUE, answer |-> NoAnswer, calls |-> calls]

handle_semantic_query(in) ==
    Returned(Answer(in.question, "semantic_search", in.matches, 0, "none"),
             <<"semantic_search_commits">>
             \o (IF in.matches > 0 /\ "file_path" \in in.context
                 THEN <<"find_similar_changes">> ELSE <<>>))

handle_evolution_query(in) ==
    Returned(Answer(in.question, "evolution_analysis", in.rows, 0, "none"),
             (IF "file_path" \in in.context THEN <<"analyze_semantic_evolution">> ELSE <<>>)
             \o <<"identify_semantic_clusters", "session.run">>)

handle_impact_query(in) ==
    LET impacts == (IF "commit_sha" \in in.context THEN in.rows ELSE 0) + in.rows
        recent_changes == RecentChangeRows(in.rows)
        architecture_impact ==
            IF Len(recent_changes) > 0
            THEN analyze_architecture_impact(recent_changes, in.llm, 1)
            ELSE [raised |-> FALSE, recommendations |-> 0]
        calls == (IF "commit_sha" \in in.context THEN <<"session.run">> ELSE <<>>)
                 \o <<"session.run", "session.run">>
                 \o (IF Len(recent_changes) > 0 THEN <<"analyze_architecture_impact">>
                     ELSE <<>>)
    IN  IF architecture_impact.raised THEN Raised(calls)
        ELSE Returned(Answer(in.question, "impact_analysis", impacts,
                             architecture_impact.recommendations, "none"),
                      calls)

handle_pattern_query(in) ==
    Returned(Answer(in.question, "pattern_analysis", in.rows, 0, "none"),
             <<"identify_semantic_clusters", "session.run", "session.run">>)

handle_collaboration_query(in) ==
    Returned(Answer(in.question, "collaboration_analysis", in.rows, 0, "none"),
             <<"session.run", "session.run">>)

handle_general_query(in) ==
    LET semantic_results == SearchRows(in.matches)
        commits_data == [j \in 1..Len(semantic_results) |-> CommitsDataEntry(semantic_results[j])]
        calls == <<"semantic_search_commits", "get_contextual_recommendations">>
    IN  IF Len(semantic_results) = 0
        THEN Returned(Answer(in.question, "general", 0, 0, "none"), calls)
        ELSE LET narrative == generate_change_narrative(commits_data, in.llm)
             IN  IF narrative = "TypeError"
                 THEN Raised(calls \o <<"generate_change_narrative">>)
                 ELSE Returned(Answer(in.question, "general", Len(semantic_results), 0, narrative),
                               calls \o <<"generate_change_narrative">>)

Handle(handler, in) ==
    CASE handler = "semantic" -> handle_semantic_query(in)
      [] handler = "evolution" -> handle_evolution_query(in)
      [] handler = "impact" -> handle_impact_query(in)
      [] handler = "pattern" -> handle_pattern_query(in)
      [] handler = "collaboration" -> handle_collaboration_query(in)
      [] OTHER -> handle_general_query(in)

\* The handler on a VectorGraphDatabase whose driver is drv: every handler
\* starts with a call on the store (the first of its calls), and with no
\* driver that call raises AttributeError at self.driver.session().
HandleOn(drv, handler, in) ==
    IF drv = "none" THEN Raised(<<Head(Handle(handler, in).calls)>>)
    ELSE Handle(handler, in)

\* Longest sample question, in words.
MaxWords == 2

\* Most rows semantic_search_commits returns in the model.
MaxMatches == 2

\* Most rows another query of a handler returns in the model.
MaxRows == 1

Vocabulary ==
    {<<"s", "i", "m", "i", "l", "a", "r">>,
     <<"u", "n", "l", "i", "k", "e", "l", "y">>,
     <<"h", "i", "s", "t", "o", "r", "y">>,
     <<"b", "e", "c", "a", "u", "s", "e">>,
     <<"r", "e", "s", "u", "l", "t", "s">>,
     <<"t", "r", "e", "n", "d">>,
     <<"W", "h", "o">>,
     <<"f", "i", "x", "e", "s">>,
     <<"s", "a", "m", "e">>,
     <<"a", "s">>}

ExampleQuestion ==
    <<"F", "i", "n", "d", " ", "c", "o", "m", "m", "i", "t", "s", " ", "s", "i", "m", "i", "l", "a", "r", " ", "t", "o", " ", "a", "u", "t", "h", " ", "f", "i", "x", "e", "s">>

RECURSIVE Join(_)
\* ' '.join(words)
Join(words) ==
    IF Len(words) = 0 THEN <<>>
    ELSE IF Len(words) = 1 THEN words[1]
    ELSE words[1] \o <<" ">> \o Join(Tail(words))

Questions ==
    {Join(ws) : ws \in UNION {[1..n -> Vocabulary] : n \in 1..MaxWords}} \cup {ExampleQuestion}

Contexts == {{}, {"file_path", "commit_sha"}}

RouterInit ==
    /\ rq_in \in [question : Questions, context : Contexts, llm : LLMStates,
                  matches : 0..MaxMatches, rows : 0..MaxRows]
    /\ rq_handlers = <<>>
    /\ rq_calls = <<>>
    /\ rq_answer = NoAnswer
    /\ rq_outcome = "asked"

AnswerQuestion ==
    LET handler == Dispatch(rq_in.question)
        r == HandleOn(driver, handler, rq_in)
    IN  /\ rq_outcome = "asked"
        /\ rq_handlers' = <<handler>>
        /\ rq_calls' = r.calls
        /\ rq_answer' = r.answer
        /\ rq_outcome' = IF r.raised THEN "raised" ELSE "returned"
        /\ UNCHANGED <<rq_in, embVars, findVars, storeVars, queryVars>>

\* app.ask_semantic_question for the request in; engine tells whether
\* semantic_engine was built.  status is the HTTP status of the response,
\* success whether its body has 'success': True.
ask_semantic_question(in, engine, drv) ==
    IF in.question = <<>> \/ in.repo_url = ""
    THEN [status |-> "400", success |-> FALSE, handlers |-> <<>>, calls |-> <<>>,
          answer |-> NoAnswer]
    ELSE IF ~engine
    THEN [status |-> "503", success |-> FALSE, handlers |-> <<>>, calls |-> <<>>,
          answer |-> NoAnswer]
    ELSE LET handler == Dispatch(in.question)
             r == HandleOn(drv, handler, in)
         IN  IF r.raised
             THEN [status |-> "500", success |-> FALSE, handlers |-> <<handler>>,
                   calls |-> r.calls, answer |-> NoAnswer]
             ELSE [status |-> "200", success |-> TRUE, handlers |-> <<handler>>,
                   calls |-> r.calls, answer |-> r.answer]

\* One POST /ask-semantic.
AskSemantic ==
    LET r == ask_semantic_question(rq_in, rq_in.engine, driver)
    IN  /\ rq_outcome = "asked"
        /\ rq_handlers' = r.handlers
        /\ rq_calls' = r.calls
        /\ rq_answer' = r.answer
        /\ rq_outcome' = r.status
        /\ UNCHANGED <<rq_in, embVars, findVars, storeVars, queryVars>>

InitRouter == EmbIdle /\ FindIdle /\ RouterInit /\ StoreIdle /\ QueryIdle

RouterNext == AnswerQuestion

SpecRouter == InitRouter /\ [][RouterNext]_vars

(***************************************************************************)
(* VectorGraphDatabase: the store operations.  The store is a property     *)
(* graph: for each label the set of its nodes, for each relationship type   *)
(* the set of its (start node, end node) pairs.  A node is its natural key, *)
(* its identity among the nodes with that key (copy: 1 for the first node   *)
(* created with the key, 2 for the next, ...) and its properties.           *)
(***************************************************************************)
\* The rows a node pattern (n:Label {key: value}) binds.
Bound(nodes, key) == {n \in nodes : n.key = key}

\* The identities of nodes, as relationships hold them.
Refs(nodes) == {<<n.key, n.copy>> : n \in nodes}

NewNode(nodes, key, props) ==
    [key |-> key, copy |-> Cardinality(Bound(nodes, key)) + 1, props |-> props]

\* CREATE (n:Label {key: value}): a new node whatever the store holds.
MergeAlwaysCreates(nodes, key, props) == nodes \cup {NewNode(nodes, key, props)}

\* MERGE (n:Label {key: value}): binds the nodes with the key, creates one
\* when there is none.
Merge(nodes, key, props) ==
    IF Bound(nodes, key) = {} THEN nodes \cup {NewNode(nodes, key, props)} ELSE nodes

\* SET n.property = value, ...: the properties named are written, the others
\* of the node stay.
WithProps(old, props) ==
    [f \in DOMAIN old \cup DOMAIN props |-> IF f \in DOMAIN props THEN props[f] ELSE old[f]]

\* SET n.property = value, ... on every bound node.
SetProps(nodes, key, props) ==
    {IF n.key = key THEN [n EXCEPT !.props = WithProps(n.props, props)] ELSE n : n \in nodes}

\* MERGE (a)-[:TYPE]->(b) for every row of bound nodes.
MergeRel(rels, from, to) == rels \cup (Refs(from) \X Refs(to))

\* A File node carries no property set by these operations.
NoProps == [none |-> TRUE]

\* GraphDatabaseManager._create_repository: MERGE (r:Repository {url}) SET ...
\* (analyzed_at, a clock reading no store operation reads, is left out).
create_repository(G, repo_data) ==
    [G EXCEPT !.Repository =
        SetProps(Merge(@, repo_data.url, [name |-> repo_data.name]),
                 repo_data.url, [name |-> repo_data.name])]

\* VectorGraphDatabase._create_commit_with_embedding (type, insertions,
\* deletions and semantic_category are copied like message).
create_commit_with_embedding(G, commit_data, repo_url, embedding) ==
    LET r == Bound(G.Repository, repo_url)
        props == [message |-> commit_data.message, timestamp |-> commit_data.timestamp,
                  embedding |-> embedding]
        authors == SetProps(Merge(G.Author, commit_data.author_email,
                                  [name |-> commit_data.author_name]),
                            commit_data.author_email, [name |-> commit_data.author_name])
        commits == SetProps(Merge(G.Commit, commit_data.sha, props), commit_data.sha, props)
        a == Bound(authors, commit_data.author_email)
        c == Bound(commits, commit_data.sha)
    IN  IF r = {} THEN G
        ELSE [G EXCEPT !.Author = authors,
                       !.Commit = commits,
                       !.HAS_COMMIT = MergeRel(@, r, c),
                       !.AUTHORED = MergeRel(@, a, c)]

NoSessionNever(S) == FALSE

\* self.driver.session() with no driver: AttributeError.
NoSession(S) == S.driver = "none"

\* VectorGraphDatabase.store_commit_with_embedding on the state S (store,
\* cache, driver), against provider p: the embedding is made first, then the
\* session is opened.  S.raised tells whether the call raised.
store_commit_with_embedding(S, commit_data, repo_url, p) ==
    LET g == generate_embedding(model_type, S.cache, p, commit_data.message, "commit", 0)
    IN  IF g.raised THEN [S EXCEPT !.raised = TRUE]
        ELSE IF NoSession(S) THEN [S EXCEPT !.cache = g.cache, !.raised = TRUE]
        ELSE [S EXCEPT !.graph = create_commit_with_embedding(@, commit_data, repo_url, g.ret),
                       !.cache = g.cache,
                       !.raised = FALSE]

\* change_id = f"{commit_sha}_{file_path}"
ChangeId(commit_sha, file_path) == <<commit_sha, file_path>>

\* CodeEmbeddingAnalyzer.analyze_code_change: semantic_similarity,
\* change_magnitude and change_type are functions of the two vectors, kept
\* here as the pair of them.
analyze_code_change(cache, p, before_code, after_code) ==
    LET b == generate_embedding(model_type, cache, p, before_code, "code", 0)
        a == generate_embedding(model_type, b.cache, b.provider, after_code, "code", 0)
    IN  IF b.raised THEN [raised |-> TRUE, cache |-> b.cache,
                          after_embedding |-> NoVector,
                          semantic_similarity |-> <<NoVector, NoVector>>]
        ELSE [raised |-> a.raised, cache |-> a.cache,
              after_embedding |-> a.ret,
              semantic_similarity |-> <<b.ret, a.ret>>]

\* VectorGraphDatabase._create_code_change_with_embedding
create_code_change_with_embedding(G, commit_sha, file_path, change_embedding, analysis) ==
    LET c == Bound(G.Commit, commit_sha)
        props == [embedding |-> change_embedding.after_embedding,
                  semantic_similarity |-> change_embedding.semantic_similarity,
                  analysis |-> analysis]
        files == Merge(G.File, file_path, NoProps)
        changes == SetProps(Merge(G.Change, ChangeId(commit_sha, file_path), props),
                            ChangeId(commit_sha, file_path), props)
        f == Bound(files, file_path)
        ch == Bound(changes, ChangeId(commit_sha, file_path))
    IN  IF c = {} THEN G
        ELSE [G EXCEPT !.File = files,
                       !.Change = changes,
                       !.CONTAINS_CHANGE = MergeRel(@, c, ch),
                       !.MODIFIES = MergeRel(@, ch, f)]

\* VectorGraphDatabase.store_code_change_with_analysis
store_code_change_with_analysis(S, commit_sha, file_path, before_code, after_code, analysis, p) ==
    LET change_embedding == analyze_code_change(S.cache, p, before_code, after_code)
    IN  IF change_embedding.raised \/ NoSession(S)
        THEN [S EXCEPT !.cache = change_embedding.cache, !.raised = TRUE]
        ELSE [S EXCEPT !.graph = create_code_change_with_embedding(@, commit_sha, file_path,
                                                                   change_embedding, analysis),
                       !.cache = change_embedding.cache,
                       !.raised = FALSE]

RECURSIVE LinkCommits(_, _, _, _)
\* for commit_sha in pr_data.get('commits', []): MATCH pr, MATCH c, MERGE INCLUDES
LinkCommits(G, pr_number, commits, i) ==
    IF i > Len(commits) THEN G
    ELSE LinkCommits([G EXCEPT !.INCLUDES = MergeRel(@, Bound(G.PullRequest, pr_number),
                                                      Bound(G.Commit, commits[i]))],
                     pr_number, commits, i + 1)

\* VectorGraphDatabase._create_pull_request (description, state, created_at,
\* merged_at and author are copied like title).
create_pull_request(G, pr_data, repo_url, embedding) ==
    LET r == Bound(G.Repository, repo_url)
        props == [title |-> pr_data.title, embedding |-> embedding]
        prs == SetProps(Merge(G.PullRequest, pr_data.number, props), pr_data.number, props)
        pr == Bound(prs, pr_data.number)
        stored == IF r = {} THEN G
                  ELSE [G EXCEPT !.PullRequest = prs, !.HAS_PR = MergeRel(@, r, pr)]
    IN  LinkCommits(stored, pr_data.number, pr_data.commits, 1)

\* VectorGraphDatabase.store_pull_request
store_pull_request(S, pr_data, repo_url, p) ==
    LET g == generate_embedding(model_type, S.cache, p, pr_data.title, "commit", 0)
    IN  IF g.raised THEN [S EXCEPT !.raised = TRUE]
        ELSE IF NoSession(S) THEN [S EXCEPT !.cache = g.cache, !.raised = TRUE]
        ELSE [S EXCEPT !.graph = create_pull_request(@, pr_data, repo_url, g.ret),
                       !.cache = g.cache,
                       !.raised = FALSE]

(***************************************************************************)
(* The calls made on the store: one repository, two commits, one file, one *)
(* pull request; a commit is stored with either message, a change with one *)
(* pair of code versions, a pull request with or without its commit list.  *)
(***************************************************************************)
RepoUrls == {"repoA"}

Shas == {"sha1", "sha2"}

Paths == {"a.py"}

PrNumbers == {7}

RepoData == [url : RepoUrls, name : {"repo"}]

CommitData ==
    [sha : Shas, message : Texts, timestamp : {1}, author_email : {"dev@example.com"},
     author_name : {"Dev"}]

Titles == {1}

PrData == [number : PrNumbers, title : Titles, commits : {<<>>, <<"sha1">>}]

BeforeCodes == {1}

AfterCodes == {2}

ChangeAnalysis == [summary |-> "analysis"]

\* The provider during one store call: up, down, or changing between the two
\* embeddings of analyze_code_change (one call for the first, two failing
\* calls for the first).
StoreProviders ==
    {ProviderUp,
     [script |-> <<>>, rest |-> FALSE],
     [script |-> <<TRUE>>, rest |-> FALSE],
     [script |-> <<FALSE, FALSE>>, rest |-> TRUE]}

\* The state the store operations run on.
StoreState == [graph |-> graph, cache |-> embedding_cache, driver |-> driver, raised |-> FALSE]

VisibleDirty(committed, pending) == IF pending.open THEN pending.graph ELSE committed

\* The store a read transaction sees beside a write transaction pending:
\* what is committed.
Visible(committed, pending) == committed

\* The state the query operations run on.
ReadState == [StoreState EXCEPT !.graph = Visible(graph, tx)]

\* What a store call did to its entity: "nothing" (its MATCH bound no row),
\* "created", "same" (the entity was there and the store is as before) or
\* "updated".
Did(matched, existed, after) ==
    IF ~matched THEN "nothing"
    ELSE IF ~existed THEN "created"
    ELSE IF after = graph THEN "same"
    ELSE "updated"

embCallVars ==
    <<model_type, provider, op, ret, batch_ret, outcome, events, hist, nocache, callers>>

StoreRepository(repo_data) ==
    LET G == create_repository(graph, repo_data)
    IN  /\ graph' = G
        /\ st_last' = [name |-> "store_repository",
                       did |-> Did(TRUE, Bound(graph.Repository, repo_data.url) # {}, G),
                       raised |-> FALSE]
        /\ UNCHANGED <<embVars, findVars, routerVars, driver, tx, queryVars>>

StoreCommitWithEmbedding(commit_data, repo_url, p) ==
    LET S == store_commit_with_embedding(StoreState, commit_data, repo_url, p)
    IN  /\ graph' = S.graph
        /\ embedding_cache' = S.cache
        /\ st_last' = [name |-> "store_commit_with_embedding",
                       did |-> Did(Bound(graph.Repository, repo_url) # {},
                                   Bound(graph.Commit, commit_data.sha) # {}, S.graph),
                       raised |-> S.raised]
        /\ UNCHANGED <<embCallVars, findVars, routerVars, driver, tx, queryVars>>

StoreCodeChangeWithAnalysis(commit_sha, file_path, before_code, after_code, p) ==
    LET S == store_code_change_with_analysis(StoreState, commit_sha, file_path, before_code,
                                             after_code, ChangeAnalysis, p)
    IN  /\ graph' = S.graph
        /\ embedding_cache' = S.cache
        /\ st_last' = [name |-> "store_code_change_with_analysis",
                       did |-> Did(Bound(graph.Commit, commit_sha) # {},
                                   Bound(graph.Change, ChangeId(commit_sha, file_path)) # {},
                                   S.graph),
                       raised |-> S.raised]
        /\ UNCHANGED <<embCallVars, findVars, routerVars, driver, tx, queryVars>>

StorePullRequest(pr_data, repo_url, p) ==
    LET S == store_pull_request(StoreState, pr_data, repo_url, p)
    IN  /\ graph' = S.graph
        /\ embedding_cache' = S.cache
        /\ st_last' = [name |-> "store_pull_request",
                       did |-> Did(Bound(graph.Repository, repo_url) # {},
                                   Bound(graph.PullRequest, pr_data.number) # {}, S.graph),
                       raised |-> S.raised]
        /\ UNCHANGED <<embCallVars, findVars, routerVars, driver, tx, queryVars>>

InitStore == EmbIdle /\ FindIdle /\ RouterIdle /\ StoreIdle /\ QueryIdle

StoreNext ==
    \/ \E repo_data \in RepoData : StoreRepository(repo_data)
    \/ \E commit_data \in CommitData, repo_url \in RepoUrls, p \in StoreProviders :
           StoreCommitWithEmbedding(commit_data, repo_url, p)
    \/ \E commit_sha \in Shas, file_path \in Paths, before_code \in BeforeCodes,
          after_code \in AfterCodes, p \in StoreProviders :
           StoreCodeChangeWithAnalysis(commit_sha, file_path, before_code, after_code, p)
    \/ \E pr_data \in PrData, repo_url \in RepoUrls, p \in StoreProviders :
           StorePullRequest(pr_data, repo_url, p)

SpecStore == InitStore /\ [][StoreNext]_vars

(***************************************************************************)
(* VectorGraphDatabase: the query operations.  A query reads the committed *)
(* store; the rows a Cypher query returns in no stated order are a set, an *)
(* ORDER BY fixes their order up to rows of equal sort key.                *)
(***************************************************************************)
\* A node as relationships hold it.
Ref(n) == <<n.key, n.copy>>

\* n.embedding IS NOT NULL
HasEmbedding(n) == "embedding" \in DOMAIN n.props

\* GraphDatabaseManager._create_commit: the commit node without an embedding.
create_commit(G, commit_data, repo_url) ==
    LET r == Bound(G.Repository, repo_url)
        props == [message |-> commit_data.message, timestamp |-> commit_data.timestamp]
        authors == SetProps(Merge(G.Author, commit_data.author_email,
                                  [name |-> commit_data.author_name]),
                            commit_data.author_email, [name |-> commit_data.author_name])
        commits == SetProps(Merge(G.Commit, commit_data.sha, props), commit_data.sha, props)
        a == Bound(authors, commit_data.author_email)
        c == Bound(commits, commit_data.sha)
    IN  IF r = {} THEN G
        ELSE [G EXCEPT !.Author = authors,
                       !.Commit = commits,
                       !.HAS_COMMIT = MergeRel(@, r, c),
                       !.AUTHORED = MergeRel(@, a, c)]

\* gds.similarity.cosine(a, b) for vectors of one dimension, as the pair
\* (dot, nn); nn = 0 (a zero vector) is the NaN of 0 / 0.
gds_similarity_cosine(a, b) ==
    [dot |-> Dot(a.xs, b.xs), nn |-> NormSq(a.xs) * NormSq(b.xs)]

\* The floor of semantic_search_commits: 0.3 = 3 / sqrt(100).
SearchFloor == [dot |-> 3, nn |-> 100]

AboveOrAt(similarity, floor) == similarity.nn # 0 /\ SimGeq(similarity, floor)

\* WHERE similarity > floor; no comparison with NaN is true.
Above(similarity, floor) == similarity.nn # 0 /\ SimGt(similarity, floor)

\* MATCH (r:Repository {url: $repo_url})-[:HAS_COMMIT]->(c:Commit)
CommitsOf(G, repo_url) ==
    {c \in G.Commit :
        \E r \in Bound(G.Repository, repo_url) : <<Ref(r), Ref(c)>> \in G.HAS_COMMIT}

\* The lists that hold every row of rows once.
Arrangements(rows) ==
    {seq \in [1..Cardinality(rows) -> rows] :
        \A i \in DOMAIN seq, j \in DOMAIN seq : i # j => seq[i] # seq[j]}

\* ORDER BY similarity DESC: the orders the rows may come in.
OrderBySimilarityDesc(rows) ==
    {seq \in Arrangements(rows) :
        \A i \in DOMAIN seq, j \in DOMAIN seq :
            i < j => SimGeq(seq[i].similarity, seq[j].similarity)}

\* VectorGraphDatabase._vector_search_commits: whether the query fails (a
\* negative LIMIT, a cosine of vectors of two dimensions), the pairs of
\* vectors handed to the cosine, and the row lists it may return.
vector_search_commits(G, query_embedding, repo_url, top_k) ==
    LET matched == {c \in CommitsOf(G, repo_url) : HasEmbedding(c)}
        raised == \/ top_k < 0
                  \/ \E c \in matched : c.props.embedding.dim # query_embedding.dim
        rows == {[sha |-> c.key, message |-> c.props.message,
                  similarity |-> gds_similarity_cosine(c.props.embedding, query_embedding)] :
                    c \in {m \in matched :
                              Above(gds_similarity_cosine(m.props.embedding, query_embedding),
                                    SearchFloor)}}
    IN  [raised |-> raised,
         compared |-> {<<c.props.embedding, query_embedding>> : c \in matched},
         results |-> IF raised THEN {<<>>}
                     ELSE {SliceTo(seq, top_k) : seq \in OrderBySimilarityDesc(rows)}]

\* VectorGraphDatabase.semantic_search_commits on state S against provider p:
\* the query is embedded first, then the session is opened.
semantic_search_commits(S, query, repo_url, top_k, p) ==
    LET g == generate_embedding(model_type, S.cache, p, query, "commit", 0)
        found == vector_search_commits(S.graph, g.ret, repo_url, top_k)
    IN  IF g.raised \/ NoSession(S)
        THEN [raised |-> TRUE, cache |-> g.cache, compared |-> {}, results |-> {<<>>}]
        ELSE [raised |-> found.raised, cache |-> g.cache, compared |-> found.compared,
              results |-> found.results]

\* The result of a query that returned no row or raised.
NoRows == [rows |-> <<>>]

\* The floor of find_similar_changes: 0.5 = 1 / sqrt(4).
ChangeFloor == [dot |-> 1, nn |-> 4]

\* MATCH (ch:Change)-[:MODIFIES]->(f:File)
ChangesOfFiles(G) ==
    {q \in G.Change \X G.File : <<Ref(q[1]), Ref(q[2])>> \in G.MODIFIES}

\* VectorGraphDatabase.find_similar_changes on state S: the outcomes the call
\* may have.  The reference embedding is that of any one embedded change of
\* the file (LIMIT 1 without an order); id names the change behind a row;
\* locals holds the reference_embedding of the call.
find_similar_changes(S, file_path, top_k) ==
    LET refs == {q[1] : q \in {o \in ChangesOfFiles(S.graph) :
                                  o[2].key = file_path /\ HasEmbedding(o[1])}}
        others == {o \in ChangesOfFiles(S.graph) :
                      HasEmbedding(o[1]) /\ o[2].key # file_path}
        Sim(o, ref) == gds_similarity_cosine(o[1].props.embedding, ref.props.embedding)
        Rows(ref) == {[id |-> o[1].key, file |-> o[2].key,
                       semantic_similarity |-> o[1].props.semantic_similarity,
                       similarity |-> Sim(o, ref)] :
                         o \in {x \in others : Above(Sim(x, ref), ChangeFloor)}}
        Fails(ref) == \/ top_k < 0
                      \/ \E o \in others : o[1].props.embedding.dim # ref.props.embedding.dim
    IN  IF NoSession(S) THEN {[raised |-> TRUE, result |-> NoRows, cache |-> S.cache]}
        ELSE IF refs = {} THEN {[raised |-> FALSE, result |-> NoRows, cache |-> S.cache]}
        ELSE UNION {IF Fails(ref)
                    THEN {[raised |-> TRUE, result |-> NoRows, cache |-> S.cache]}
                    ELSE {[raised |-> FALSE, result |-> [rows |-> SliceTo(seq, top_k)],
                           cache |-> S.cache,
                           locals |-> [commits |-> <<>>,
                                       reference_embedding |-> ref.props.embedding]] :
                             seq \in OrderBySimilarityDesc(Rows(ref))} :
                    ref \in refs}

(***************************************************************************)
(* Drift.  A drift 1 - dot / sqrt(nn) and a mean of drifts are kept exact  *)
(* as fractions num / den in lowest terms, den > 0; the stored vectors of  *)
(* the model have integer norms, so that sqrt(nn) is an integer (real      *)
(* arithmetic: floating-point rounding is not modelled).                   *)
(***************************************************************************)
RECURSIVE GCD(_, _)
GCD(a, b) == IF b = 0 THEN a ELSE GCD(b, a % b)

Frac(num, den) ==
    LET g == GCD(IF num < 0 THEN -num ELSE num, den)
    IN  [num |-> num \div g, den |-> den \div g]

FracAdd(a, b) == Frac(a.num * b.den + b.num * a.den, a.den * b.den)

FracLessEq(a, b) == a.num * b.den <= b.num * a.den

\* a < b
FracLess(a, b) == a.num * b.den < b.num * a.den

Root(n) == CHOOSE r \in 0..n : r * r = n

\* 1 - calculate_similarity(a, b)
DriftOf(a, b) ==
    LET sim == calculate_similarity(a, b)
    IN  Frac(Root(sim.nn) - sim.dot, Root(sim.nn))

DriftFromPrevious(embeddings, i) == DriftOf(embeddings[i - 1].xs, embeddings[i].xs)

\* drift of embeddings[i] from the first embedding
DriftFromFirst(embeddings, i) == DriftOf(embeddings[1].xs, embeddings[i].xs)

RECURSIVE SumDrifts(_, _)
\* sum(drift_scores) over the embeddings from position i on
SumDrifts(embeddings, i) ==
    IF i > Len(embeddings) THEN Frac(0, 1)
    ELSE FracAdd(DriftFromFirst(embeddings, i), SumDrifts(embeddings, i + 1))

\* np.mean(drift_scores) for more than one embedding, else 0
SemanticDrift(embeddings) ==
    IF Len(embeddings) > 1
    THEN LET s == SumDrifts(embeddings, 2)
         IN  Frac(s.num, s.den * (Len(embeddings) - 1))
    ELSE Frac(0, 1)

\* VectorGraphDatabase._interpret_drift: thresholds 0.2, 0.5, 0.8
interpret_drift(drift) ==
    IF FracLess(drift, Frac(1, 5)) THEN "Stable: minimal semantic changes over time"
    ELSE IF FracLess(drift, Frac(1, 2)) THEN "Evolving: moderate semantic evolution"
    ELSE IF FracLess(drift, Frac(4, 5)) THEN "Significant evolution: substantial semantic changes"
    ELSE "Major transformation: fundamental semantic shifts"

\* ORDER BY c.timestamp: the orders the rows may come in.
OrderByTimestamp(rows) ==
    {seq \in Arrangements(rows) :
        \A i \in DOMAIN seq, j \in DOMAIN seq : i < j => seq[i].timestamp <= seq[j].timestamp}

\* MATCH (f:File {path})<-[:MODIFIES]-(ch:Change)<-[:CONTAINS_CHANGE]-(c:Commit)
\* WHERE ch.embedding IS NOT NULL
EvolutionRows(G, file_path) ==
    {[id |-> o[1].key, timestamp |-> o[2].props.timestamp,
      embedding |-> o[1].props.embedding,
      similarity |-> o[1].props.semantic_similarity] :
        o \in {x \in G.Change \X G.Commit :
                  /\ <<Ref(x[2]), Ref(x[1])>> \in G.CONTAINS_CHANGE
                  /\ HasEmbedding(x[1])
                  /\ \E q \in ChangesOfFiles(G) : q[1] = x[1] /\ q[2].key = file_path}}

\* VectorGraphDatabase.analyze_semantic_evolution on state S: the outcomes
\* the call may have.  np.dot of vectors of two lengths raises.
analyze_semantic_evolution(S, file_path) ==
    IF NoSession(S) THEN {[raised |-> TRUE, result |-> NoRows, cache |-> S.cache]}
    ELSE {LET embeddings == [i \in DOMAIN seq |-> seq[i].embedding]
          IN  IF \E i \in DOMAIN seq : embeddings[i].dim # embeddings[1].dim
              THEN [raised |-> TRUE, result |-> NoRows, cache |-> S.cache]
              ELSE [raised |-> FALSE,
                    result |-> [file_path |-> file_path,
                                evolution_timeline |-> seq,
                                total_changes |-> Len(seq),
                                semantic_drift |-> SemanticDrift(embeddings),
                                drift_interpretation |->
                                    interpret_drift(SemanticDrift(embeddings))],
                    cache |-> S.cache] :
              seq \in OrderByTimestamp(EvolutionRows(S.graph, file_path))}

(***************************************************************************)
(* Clusters.                                                               *)
(***************************************************************************)
\* The shas of the commits of the model, in the order they are stored in.
ShaNames == <<"sha1", "sha2", "sha3", "sha4", "sha5", "sha6", "sha7", "sha8", "sha9">>

Rank(sha) == CHOOSE i \in DOMAIN ShaNames : ShaNames[i] = sha

\* The orders a MATCH without ORDER BY returns commit nodes in: the order
\* they were stored in, or its reverse.
ScanOrders(nodes) ==
    LET Before(n) == Cardinality({m \in nodes : Rank(m.key) < Rank(n.key)})
        asc == [i \in 1..Cardinality(nodes) |-> CHOOSE n \in nodes : Before(n) = i - 1]
    IN  {asc, [i \in DOMAIN asc |-> asc[Len(asc) + 1 - i]]}

\* n_clusters and n_patterns when the caller gives none.
DefaultClusters == 5

\* the 5 of cluster_commits[:5]
SampleSize == 5

SampleFromEnd(cluster_commits) ==
    SubSeq(cluster_commits, Max(1, Len(cluster_commits) - SampleSize + 1), Len(cluster_commits))

\* cluster_commits[:5]
Sample(cluster_commits) == SliceTo(cluster_commits, SampleSize)

\* the 5 of len(embeddings) > 5
MinCorpus == 5

EnoughToClusterFromFive(embeddings) == Len(embeddings) >= MinCorpus

\* if len(embeddings) > 5
EnoughToCluster(embeddings) == Len(embeddings) > MinCorpus

\* LIMIT 500
FetchLimit == 500

\* if len(embeddings) < n_clusters: n_clusters = len(embeddings)
ClippedClusters(embeddings, n_clusters) ==
    IF Len(embeddings) < n_clusters THEN Len(embeddings) ELSE n_clusters

\* KMeans(n_clusters=n_clusters, ...).fit_predict(embeddings) raises for
\* n_clusters below 1 and for no samples.
KMeansRaises(embeddings, n_clusters) ==
    ClippedClusters(embeddings, n_clusters) < 1 \/ Len(embeddings) = 0

\* EmbeddingManager.cluster_embeddings: the label lists KMeans may return.
\* Each embedding gets one of n_clusters labels, equal embeddings the same.
cluster_embeddings(embeddings, n_clusters) ==
    LET k == ClippedClusters(embeddings, n_clusters)
        points == {embeddings[i] : i \in DOMAIN embeddings}
    IN  {[i \in DOMAIN embeddings |-> label[embeddings[i]]] : label \in [points -> 0..(k - 1)]}

\* cluster_counts of identify_semantic_patterns
ClusterCounts(clusters) ==
    [id \in {clusters[i] : i \in DOMAIN clusters} |->
        Cardinality({i \in DOMAIN clusters : clusters[i] = id})]

\* max(cluster_counts, key=cluster_counts.get): the first cluster met among
\* those of the highest count
DominantPattern(clusters) ==
    LET counts == ClusterCounts(clusters)
        first == CHOOSE i \in DOMAIN clusters :
                     /\ \A id \in DOMAIN counts : counts[id] <= counts[clusters[i]]
                     /\ \A j \in 1..(i - 1) : counts[clusters[j]] < counts[clusters[i]]
    IN  clusters[first]

\* CodeEmbeddingAnalyzer.identify_semantic_patterns, for the labels clusters
\* that cluster_embeddings returned
identify_semantic_patterns(clusters, n_patterns) ==
    [n_patterns |-> n_patterns,
     cluster_assignments |-> clusters,
     cluster_sizes |-> ClusterCounts(clusters),
     dominant_pattern |-> DominantPattern(clusters)]

\* commits after commits[i]['cluster'] = cluster_id
LabelledCommits(fetched, cluster_assignments) ==
    [i \in DOMAIN fetched |->
        [sha |-> fetched[i].key, message |-> fetched[i].props.message,
         cluster |-> cluster_assignments[i]]]

\* The result of identify_semantic_clusters for the fetched commits and the
\* patterns found in their embeddings.
ClusterResult(fetched, patterns) ==
    LET commits == LabelledCommits(fetched, patterns.cluster_assignments)
        Members(id) == SelectSeq(commits, LAMBDA c : c.cluster = id)
    IN  [total_commits_analyzed |-> Len(commits),
         num_clusters |-> patterns.n_patterns,
         clusters |-> {[cluster_id |-> id, size |-> Len(Members(id)),
                        sample_commits |-> Sample(Members(id))] :
                          id \in {patterns.cluster_assignments[i] : i \in DOMAIN fetched}},
         cluster_sizes |-> patterns.cluster_sizes]

\* VectorGraphDatabase.identify_semantic_clusters on state S: the outcomes
\* the call may have.  KMeans on vectors of two lengths raises.  locals holds
\* the list commits of the call as it is when the call returns.
identify_semantic_clusters(S, repo_url) ==
    IF NoSession(S) THEN {[raised |-> TRUE, result |-> NoRows, cache |-> S.cache]}
    ELSE UNION {
        LET fetched == SliceTo(order, FetchLimit)
            embeddings == [i \in DOMAIN fetched |-> fetched[i].props.embedding]
        IN  IF EnoughToCluster(embeddings)
            THEN IF \E i \in DOMAIN embeddings : embeddings[i].dim # embeddings[1].dim
                 THEN {[raised |-> TRUE, result |-> NoRows, cache |-> S.cache]}
                 ELSE {[raised |-> FALSE,
                        result |-> ClusterResult(fetched,
                                       identify_semantic_patterns(clusters, DefaultClusters)),
                        cache |-> S.cache,
                        locals |-> [commits |-> LabelledCommits(fetched, clusters)]] :
                          clusters \in cluster_embeddings(embeddings, DefaultClusters)}
            ELSE {[raised |-> FALSE,
                   result |-> [total_commits_analyzed |-> Len(fetched),
                               num_clusters |-> 0,
                               clusters |-> {},
                               message |-> "Not enough data for clustering"],
                   cache |-> S.cache,
                   locals |-> [commits |-> [i \in DOMAIN fetched |->
                                               [sha |-> fetched[i].key,
                                                message |-> fetched[i].props.message]]]]} :
        order \in ScanOrders({c \in CommitsOf(S.graph, repo_url) : HasEmbedding(c)})}

\* top_k of the search of get_contextual_recommendations
RecommendationTopK == 5

\* similar_commits[:3]
RecommendationCommits == 3

\* MATCH (c:Commit {sha})-[:CONTAINS_CHANGE]->(:Change)-[:MODIFIES]->(f:File)
FilesOfCommit(G, sha) ==
    {q[2].key : q \in {o \in ChangesOfFiles(G) :
                          \E c \in Bound(G.Commit, sha) :
                              <<Ref(c), Ref(o[1])>> \in G.CONTAINS_CHANGE}}

\* VectorGraphDatabase.get_contextual_recommendations on state S against
\* provider p: the outcomes the call may have.  suggested_files is kept as
\* the set of its paths, related_patterns as the number of commits counted
\* (every commit of the model has one type).
get_contextual_recommendations(S, query, repo_url, p) ==
    LET found == semantic_search_commits(S, query, repo_url, RecommendationTopK, p)
    IN  IF found.raised THEN {[raised |-> TRUE, result |-> NoRows, cache |-> found.cache]}
        ELSE {[raised |-> FALSE,
               result |-> [query |-> query,
                           similar_work |-> similar_commits,
                           suggested_files |->
                               UNION {FilesOfCommit(S.graph, similar_commits[i].sha) :
                                         i \in 1..Min(RecommendationCommits, Len(similar_commits))},
                           related_patterns |->
                               Cardinality({c \in S.graph.Commit :
                                   \E i \in DOMAIN similar_commits : c.key = similar_commits[i].sha})],
               cache |-> found.cache] :
                 similar_commits \in found.results}

\* The outcomes of the query q on state S.
QueryOutcomes(S, q) ==
    CASE q.name = "find_similar_changes" -> find_similar_changes(S, q.file_path, q.top_k)
      [] q.name = "analyze_semantic_evolution" -> analyze_semantic_evolution(S, q.file_path)
      [] q.name = "identify_semantic_clusters" -> identify_semantic_clusters(S, q.repo_url)
      [] q.name = "get_contextual_recommendations" ->
             get_contextual_recommendations(S, q.query, q.repo_url, q.provider)

\* One call of a query operation other than semantic_search_commits.
RunQuery(q) ==
    /\ q.name # "semantic_search_commits"
    /\ qry_in' = q
    /\ \E o \in QueryOutcomes(ReadState, q) :
           /\ qry_out' = [done |-> TRUE, raised |-> o.raised, result |-> o.result,
                           locals |-> IF "locals" \in DOMAIN o THEN o.locals
                                      ELSE [commits |-> <<>>]]
           /\ embedding_cache' = o.cache
    /\ UNCHANGED <<embCallVars, findVars, routerVars, storeVars>>

\* Most commits in the store a search runs on.
MaxStored == 2

SearchRepoUrls == {"repoA", "repoB"}

\* The directions of the stored embeddings: along text 1 (cosine 1 with its
\* query), at cosine 3/10 to it, along text 2, and the zero fallback.
StoredDirections == {<<1, 0, 0, 0>>, <<3, 9, 3, 1>>, <<1, 1, 0, 0>>, <<0, 0, 0, 0>>}

\* A stored embedding the model mt produced.
StoredVector(mt, xs) ==
    [dim |-> embedding_dim(mt), text |-> 0, ctx |-> "commit", len |-> 0, xs |-> xs]

\* What was stored for a commit: its repository and its embedding, or no
\* embedding (a commit stored by GraphDatabaseManager.store_commit only).
StoredCommits ==
    {e \in [repo_url : SearchRepoUrls, embedded : BOOLEAN, xs : StoredDirections] :
        ~e.embedded => e.xs = <<0, 0, 0, 0>>}

StoredCommitLists == UNION {[1..n -> StoredCommits] : n \in 0..MaxStored}

CommitDataOf(sha) ==
    [sha |-> sha, message |-> 1, timestamp |-> 1, author_email |-> "dev@example.com",
     author_name |-> "Dev"]

RECURSIVE StoreCommitsFrom(_, _, _)
\* The store after the commits of list from position i on are stored.
StoreCommitsFrom(G, list, i) ==
    IF i > Len(list) THEN G
    ELSE StoreCommitsFrom(
             IF list[i].embedded
             THEN create_commit_with_embedding(G, CommitDataOf(ShaNames[i]), list[i].repo_url,
                                               StoredVector("openai", list[i].xs))
             ELSE create_commit(G, CommitDataOf(ShaNames[i]), list[i].repo_url),
             list, i + 1)

\* The store with both repositories and the commits of list.
GraphOfCommits(list) ==
    StoreCommitsFrom(
        create_repository(create_repository(EmptyGraph, [url |-> "repoA", name |-> "repo"]),
                          [url |-> "repoB", name |-> "repo"]),
        list, 1)

SearchInit ==
    /\ graph \in {GraphOfCommits(list) : list \in StoredCommitLists}
    /\ st_last = NoStoreCall
    /\ driver = "connected"
    /\ tx = NoTx
    /\ qry_in \in [name : {"semantic_search_commits"}, query : Texts,
                   repo_url : SearchRepoUrls, top_k : -1..MaxStored,
                   provider : {ProviderUp, [script |-> <<>>, rest |-> FALSE]}]
    /\ qry_out = NoQueryResult

SemanticSearchCommits(q) ==
    LET r == semantic_search_commits(ReadState, q.query, q.repo_url, q.top_k, q.provider)
    IN  /\ q.name = "semantic_search_commits"
        /\ qry_in' = q
        /\ \E rows \in r.results :
               qry_out' = [done |-> TRUE, raised |-> r.raised, rows |-> rows,
                           compared |-> r.compared]
        /\ embedding_cache' = r.cache
        /\ UNCHANGED <<embCallVars, findVars, routerVars, storeVars>>

InitSearch == EmbIdle /\ FindIdle /\ RouterIdle /\ SearchInit

SearchNext == ~qry_out.done /\ SemanticSearchCommits(qry_in)

(***************************************************************************)
(* The store that was never reached: _connect caught the failure and left  *)
(* self.driver = None.  The calls made on it: each store operation, each   *)
(* query, answer_question and a POST /ask-semantic.                         *)
(***************************************************************************)
UnreachableQueries ==
    [name : {"semantic_search_commits", "get_contextual_recommendations"}, query : {1},
     repo_url : RepoUrls, top_k : {MaxStored}, provider : {ProviderUp}]
    \cup [name : {"find_similar_changes"}, file_path : Paths, top_k : {MaxStored}]
    \cup [name : {"analyze_semantic_evolution"}, file_path : Paths]
    \cup [name : {"identify_semantic_clusters"}, repo_url : RepoUrls]

\* The requests: a one-word question for each intent or no question, with or
\* without a repository url; engine tells whether semantic_engine was built.
UnreachableRequests ==
    [question : {Join(<<w>>) : w \in Vocabulary} \cup {<<>>}, context : Contexts,
     llm : {"none"}, matches : {MaxMatches}, rows : {MaxRows},
     repo_url : RepoUrls \cup {""}, engine : BOOLEAN]

UnreachableInit ==
    /\ graph = EmptyGraph
    /\ st_last = NoStoreCall
    /\ driver = "none"
    /\ tx = NoTx
    /\ rq_in \in UnreachableRequests
    /\ rq_handlers = <<>>
    /\ rq_calls = <<>>
    /\ rq_answer = NoAnswer
    /\ rq_outcome = "asked"

InitUnreachable == EmbIdle /\ FindIdle /\ UnreachableInit /\ QueryIdle

UnreachableNext ==
    \/ \E sha \in {"sha1"}, repo_url \in RepoUrls :
           StoreCommitWithEmbedding(CommitDataOf(sha), repo_url, ProviderUp)
    \/ \E commit_sha \in {"sha1"}, file_path \in Paths, before_code \in BeforeCodes,
          after_code \in AfterCodes :
           StoreCodeChangeWithAnalysis(commit_sha, file_path, before_code, after_code,
                                       ProviderUp)
    \/ \E pr_data \in PrData, repo_url \in RepoUrls :
           StorePullRequest(pr_data, repo_url, ProviderUp)
    \/ \E q \in UnreachableQueries : SemanticSearchCommits(q)
    \/ \E q \in UnreachableQueries : RunQuery(q)
    \/ AnswerQuestion
    \/ AskSemantic

SpecUnreachable == InitUnreachable /\ [][UnreachableNext]_vars

(***************************************************************************)
(* Store operations step by step.  session.execute_write opens a write     *)
(* transaction, the function passed to it runs its statements with tx.run  *)
(* on the transaction's own view of the store, and the transaction is      *)
(* committed when the function returns; an exception or the loss of the    *)
(* caller before that rolls it back.  Queries of other callers run between *)
(* the steps.                                                              *)
(***************************************************************************)
\* The statements of _create_pull_request: the pull request query, then one
\* link query for each commit sha.
PullRequestStatements(pr_data, repo_url, embedding) ==
    <<[stmt |-> "pull_request", pr_data |-> pr_data, repo_url |-> repo_url,
       embedding |-> embedding]>>
    \o [i \in DOMAIN pr_data.commits |->
           [stmt |-> "link", pr_number |-> pr_data.number, commit_sha |-> pr_data.commits[i]]]

\* tx.run(query, ...) of the statement st on the store G
RunStatement(G, st) ==
    CASE st.stmt = "commit" ->
             create_commit_with_embedding(G, st.commit_data, st.repo_url, st.embedding)
      [] st.stmt = "change" ->
             create_code_change_with_embedding(G, st.commit_sha, st.file_path,
                                               st.change_embedding, st.analysis)
      [] st.stmt = "pull_request" ->
             create_pull_request(G, [st.pr_data EXCEPT !.commits = <<>>], st.repo_url,
                                 st.embedding)
      [] st.stmt = "link" -> LinkCommits(G, st.pr_number, <<st.commit_sha>>, 1)

\* The write transaction of a store operation with the statements todo.
OpenTx(call, todo) == [open |-> TRUE, call |-> call, graph |-> graph, todo |-> todo]

\* store_commit_with_embedding up to session.execute_write
BeginStoreCommit(commit_data, repo_url, p) ==
    LET g == generate_embedding(model_type, embedding_cache, p, commit_data.message, "commit", 0)
    IN  /\ ~tx.open /\ driver # "none" /\ ~g.raised
        /\ embedding_cache' = g.cache
        /\ tx' = OpenTx("store_commit_with_embedding",
                         <<[stmt |-> "commit", commit_data |-> commit_data,
                            repo_url |-> repo_url, embedding |-> g.ret]>>)
        /\ UNCHANGED <<embCallVars, findVars, routerVars, graph, st_last, driver, queryVars>>

\* store_code_change_with_analysis up to session.execute_write
BeginStoreChange(commit_sha, file_path, before_code, after_code, p) ==
    LET change_embedding == analyze_code_change(embedding_cache, p, before_code, after_code)
    IN  /\ ~tx.open /\ driver # "none" /\ ~change_embedding.raised
        /\ embedding_cache' = change_embedding.cache
        /\ tx' = OpenTx("store_code_change_with_analysis",
                         <<[stmt |-> "change", commit_sha |-> commit_sha,
                            file_path |-> file_path, change_embedding |-> change_embedding,
                            analysis |-> ChangeAnalysis]>>)
        /\ UNCHANGED <<embCallVars, findVars, routerVars, graph, st_last, driver, queryVars>>

\* store_pull_request up to session.execute_write
BeginStorePullRequest(pr_data, repo_url, p) ==
    LET g == generate_embedding(model_type, embedding_cache, p, pr_data.title, "commit", 0)
    IN  /\ ~tx.open /\ driver # "none" /\ ~g.raised
        /\ embedding_cache' = g.cache
        /\ tx' = OpenTx("store_pull_request", PullRequestStatements(pr_data, repo_url, g.ret))
        /\ UNCHANGED <<embCallVars, findVars, routerVars, graph, st_last, driver, queryVars>>

\* One tx.run of the function passed to execute_write.
TxRun ==
    /\ tx.open /\ tx.todo # <<>>
    /\ tx' = [tx EXCEPT !.graph = RunStatement(@, Head(tx.todo)), !.todo = Tail(@)]
    /\ UNCHANGED <<embVars, findVars, routerVars, graph, st_last, driver, queryVars>>

\* The function has returned: the transaction commits.
TxCommit ==
    /\ tx.open /\ tx.todo = <<>>
    /\ graph' = tx.graph
    /\ st_last' = [name |-> tx.call, did |-> "committed", raised |-> FALSE]
    /\ tx' = NoTx
    /\ UNCHANGED <<embVars, findVars, routerVars, driver, queryVars>>

\* The operation is aborted before the commit: the transaction rolls back.
TxAbort ==
    /\ tx.open
    /\ st_last' = [name |-> tx.call, did |-> "aborted", raised |-> TRUE]
    /\ tx' = NoTx
    /\ UNCHANGED <<embVars, findVars, routerVars, graph, driver, queryVars>>

\* The files changes are stored for: find_similar_changes returns the changes
\* of the other file.
TxPaths == {"a.py", "b.py"}

TxPrData == [number : PrNumbers, title : Titles, commits : {<<"sha1">>}]

TxQueries ==
    [name : {"semantic_search_commits"}, query : {1},
     repo_url : RepoUrls, top_k : {MaxStored}, provider : {ProviderUp}]
    \cup [name : {"find_similar_changes"}, file_path : TxPaths, top_k : {MaxStored}]
    \cup [name : {"analyze_semantic_evolution"}, file_path : TxPaths]
    \cup [name : {"identify_semantic_clusters"}, repo_url : RepoUrls]

InitTx == EmbIdle /\ FindIdle /\ RouterIdle /\ StoreIdle /\ QueryIdle

TxNext ==
    \/ \E repo_data \in RepoData : StoreRepository(repo_data)
    \/ \E sha \in {"sha1"}, repo_url \in RepoUrls :
           BeginStoreCommit(CommitDataOf(sha), repo_url, ProviderUp)
    \/ \E commit_sha \in {"sha1"}, file_path \in TxPaths :
           BeginStoreChange(commit_sha, file_path, 1, 1, ProviderUp)
    \/ \E pr_data \in TxPrData, repo_url \in RepoUrls :
           BeginStorePullRequest(pr_data, repo_url, ProviderUp)
    \/ TxRun
    \/ TxCommit
    \/ TxAbort
    \/ \E q \in TxQueries : SemanticSearchCommits(q)
    \/ \E q \in TxQueries : RunQuery(q)

SpecTx == InitTx /\ [][TxNext]_vars

(***************************************************************************)
(* identify_semantic_clusters on a store of up to MaxCorpus commits of one *)
(* repository, each with one of two embeddings or with none.               *)
(***************************************************************************)
\* Most commits in the store clusters are asked for.
MaxCorpus == 6

ClusterCommits ==
    {e \in StoredCommits :
        /\ e.repo_url = "repoA"
        /\ e.embedded => e.xs \in {<<1, 0, 0, 0>>, <<1, 1, 0, 0>>}}

ClusterCorpora == UNION {[1..n -> ClusterCommits] : n \in 0..MaxCorpus}

ClustersInit ==
    /\ graph \in {GraphOfCommits(list) : list \in ClusterCorpora}
    /\ st_last = NoStoreCall
    /\ driver = "connected"
    /\ tx = NoTx
    /\ qry_in = [name |-> "identify_semantic_clusters", repo_url |-> "repoA"]
    /\ qry_out = NoQueryResult

InitClusters == EmbIdle /\ FindIdle /\ RouterIdle /\ ClustersInit

ClustersNext == ~qry_out.done /\ RunQuery(qry_in)

SpecClusters == InitClusters /\ [][ClustersNext]_vars

(***************************************************************************)
(* analyze_semantic_evolution on a store of up to MaxChanges changes of    *)
(* one file, each in a commit of its own.  The embeddings have integer     *)
(* norms (1, 5 or 0).                                                      *)
(***************************************************************************)
\* Most changes of the file.
MaxChanges == 3

EvolutionDirections == {<<1, 0, 0, 0>>, <<3, 4, 0, 0>>, <<0, -1, 0, 0>>, <<0, 0, 0, 0>>}

\* c.timestamp of the commits
Timestamps == {1, 2}

EvolutionHistories ==
    UNION {[1..n -> [timestamp : Timestamps, xs : EvolutionDirections]] : n \in 0..MaxChanges}

RECURSIVE StoreChangesFrom(_, _, _)
\* The store after the commits of list from position i on are stored, each
\* with its change of the file a.py.
StoreChangesFrom(G, list, i) ==
    IF i > Len(list) THEN G
    ELSE StoreChangesFrom(
             create_code_change_with_embedding(
                 create_commit_with_embedding(
                     G, [CommitDataOf(ShaNames[i]) EXCEPT !.timestamp = list[i].timestamp],
                     "repoA", StoredVector("openai", <<1, 0, 0, 0>>)),
                 ShaNames[i], "a.py",
                 [after_embedding |-> StoredVector("openai", list[i].xs),
                  semantic_similarity |-> <<NoVector, StoredVector("openai", list[i].xs)>>],
                 ChangeAnalysis),
             list, i + 1)

EvolutionInit ==
    /\ graph \in {StoreChangesFrom(GraphOfCommits(<<>>), list, 1) : list \in EvolutionHistories}
    /\ st_last = NoStoreCall
    /\ driver = "connected"
    /\ tx = NoTx
    /\ qry_in = [name |-> "analyze_semantic_evolution", file_path |-> "a.py"]
    /\ qry_out = NoQueryResult

InitEvolution == EmbIdle /\ FindIdle /\ RouterIdle /\ EvolutionInit

EvolutionNext == ~qry_out.done /\ RunQuery(qry_in)

SpecEvolution == InitEvolution /\ [][EvolutionNext]_vars

(***************************************************************************)
(* _interpret_drift on the drifts 0, 0.01, ..., 1.                         *)
(***************************************************************************)
\* The drifts are given in hundredths.
Hundredths == 100

DriftInit ==
    /\ StoreIdle
    /\ qry_in \in [name : {"_interpret_drift"}, drift : {Frac(k, Hundredths) : k \in 0..Hundredths}]
    /\ qry_out = NoQueryResult

\* One call of _interpret_drift.
InterpretDrift ==
    /\ qry_in.name = "_interpret_drift"
    /\ ~qry_out.done
    /\ qry_out' = [done |-> TRUE, raised |-> FALSE,
                    result |-> [drift_interpretation |-> interpret_drift(qry_in.drift)]]
    /\ UNCHANGED <<embVars, findVars, routerVars, storeVars, qry_in>>

InitDrift == EmbIdle /\ FindIdle /\ RouterIdle /\ DriftInit

DriftNext == InterpretDrift

SpecDrift == InitDrift /\ [][DriftNext]_vars

(***************************************************************************)
(* Closing the store and opening it again: a new VectorGraphDatabase, and  *)
(* with it a new EmbeddingManager of the model asked for, on the data the  *)
(* store holds.  _create_vector_indexes drops and recreates the indexes;   *)
(* no node is touched.                                                     *)
(***************************************************************************)
Reopen(embedding_model) ==
    /\ model_type' = embedding_model
    /\ embedding_cache' = EmptyCache
    /\ driver' = "connected"
    /\ UNCHANGED <<provider, op, ret, batch_ret, outcome, events, hist, nocache, callers>>
    /\ UNCHANGED <<findVars, routerVars, graph, st_last, tx, queryVars>>

\* The searches made between store operations.
ReopenQueries ==
    [name : {"semantic_search_commits"}, query : Texts, repo_url : RepoUrls,
     top_k : {MaxStored}, provider : {ProviderUp}]

InitReopen == EmbIdle /\ FindIdle /\ RouterIdle /\ StoreIdle /\ QueryIdle

ReopenNext ==
    \/ \E repo_data \in RepoData : StoreRepository(repo_data)
    \/ \E sha \in Shas, repo_url \in RepoUrls :
           StoreCommitWithEmbedding(CommitDataOf(sha), repo_url, ProviderUp)
    \/ \E embedding_model \in ModelTypes : Reopen(embedding_model)
    \/ \E q \in ReopenQueries : SemanticSearchCommits(q)

SpecReopen == InitReopen /\ [][ReopenNext]_vars

SpecSearch == InitSearch /\ [][SearchNext]_vars

(***************************************************************************)
(* cluster_embeddings on lists of up to MaxPoints embeddings of one        *)
(* model, asked for 1 to MaxPoints + 1 clusters.                           *)
(***************************************************************************)
\* Most embeddings in a list given to cluster_embeddings.
MaxPoints == 3

PointLists ==
    UNION {[1..n -> {StoredVector("openai", xs) : xs \in StoredDirections \ {<<3, 9, 3, 1>>}}] :
              n \in 0..MaxPoints}

KMeansInit ==
    /\ StoreIdle
    /\ qry_in \in [name : {"cluster_embeddings"}, embeddings : PointLists,
                   n_clusters : 1..(MaxPoints + 1)]
    /\ qry_out = NoQueryResult

\* One call of EmbeddingManager.cluster_embeddings.
ClusterEmbeddings ==
    /\ qry_in.name = "cluster_embeddings"
    /\ ~qry_out.done
    /\ IF KMeansRaises(qry_in.embeddings, qry_in.n_clusters)
       THEN qry_out' = [done |-> TRUE, raised |-> TRUE,
                         result |-> [clusters |-> <<>>,
                                     n_clusters |-> ClippedClusters(qry_in.embeddings,
                                                                    qry_in.n_clusters)]]
       ELSE \E clusters \in cluster_embeddings(qry_in.embeddings, qry_in.n_clusters) :
                qry_out' = [done |-> TRUE, raised |-> FALSE,
                             result |-> [clusters |-> clusters,
                                         n_clusters |-> ClippedClusters(qry_in.embeddings,
                                                                        qry_in.n_clusters)]]
    /\ UNCHANGED <<embVars, findVars, routerVars, storeVars, qry_in>>

InitKMeans == EmbIdle /\ FindIdle /\ RouterIdle /\ KMeansInit

KMeansNext == ClusterEmbeddings

SpecKMeans == InitKMeans /\ [][KMeansNext]_vars

(***************************************************************************)
(* Invalid input: generate_embedding of the empty text, under every        *)
(* behaviour of the provider, and find_similar with a negative top_k.      *)
(***************************************************************************)
NegativeTopKs == {-2, -1}

InvalidFindInit ==
    /\ fs_in \in [query : {<<1, 0>>},
                  embeddings : {<<>>, <<<<1, 1>>>>, <<<<1, 1>>, <<1, 0>>>>},
                  top_k : NegativeTopKs, threshold : {[dot |-> 0, nn |-> 1]}]
    /\ fs_out = <<>>
    /\ fs_done = FALSE

InitInvalid == EmbInit /\ InvalidFindInit /\ RouterIdle /\ StoreIdle /\ QueryIdle

InvalidNext ==
    \/ \E c \in ContextTypes, p \in Providers : GenerateEmbedding(EmptyText, c, p)
    \/ Return
    \/ FindSimilar

SpecInvalid == InitInvalid /\ [][InvalidNext]_vars

(***************************************************************************)
(* find_similar_changes on a store of up to MaxHistory changes of the      *)
(* files a.py and b.py, each change in a commit of its own.                *)
(***************************************************************************)
\* Most changes in the store.
MaxHistory == 3

ChangeHistories ==
    UNION {[1..n -> [path : TxPaths, timestamp : Timestamps,
                     xs : {<<1, 0, 0, 0>>, <<1, 1, 0, 0>>}]] : n \in 0..MaxHistory}

RECURSIVE StoreFileChangesFrom(_, _, _)
\* The store after the commits of list from position i on are stored, each
\* with its change of one file.
StoreFileChangesFrom(G, list, i) ==
    IF i > Len(list) THEN G
    ELSE StoreFileChangesFrom(
             create_code_change_with_embedding(
                 create_commit_with_embedding(
                     G, [CommitDataOf(ShaNames[i]) EXCEPT !.timestamp = list[i].timestamp],
                     "repoA", StoredVector("openai", <<1, 0, 0, 0>>)),
                 ShaNames[i], list[i].path,
                 [after_embedding |-> StoredVector("openai", list[i].xs),
                  semantic_similarity |-> <<NoVector, StoredVector("openai", list[i].xs)>>],
                 ChangeAnalysis),
             list, i + 1)

SimilarChangesInit ==
    /\ graph \in {StoreFileChangesFrom(GraphOfCommits(<<>>), list, 1) : list \in ChangeHistories}
    /\ st_last = NoStoreCall
    /\ driver = "connected"
    /\ tx = NoTx
    /\ qry_in = [name |-> "find_similar_changes", file_path |-> "a.py", top_k |-> MaxHistory]
    /\ qry_out = NoQueryResult

InitSimilarChanges == EmbIdle /\ FindIdle /\ RouterIdle /\ SimilarChangesInit

SimilarChangesNext == ~qry_out.done /\ RunQuery(qry_in)

SpecSimilarChanges == InitSimilarChanges /\ [][SimilarChangesNext]_vars

(***************************************************************************)
(* Concurrent calls of generate_embedding on one EmbeddingManager.  A      *)
(* thread is switched between the statements of the method: the look-up    *)
(* in the cache, the provider calls, the assignment to the cache.  Each    *)
(* operation on the dict is atomic.                                        *)
(***************************************************************************)
\* def generate_embedding(self, text, context_type): cache_key = ...
EnterGenerateEmbedding(t, text, c) ==
    /\ callers[t].pc = "idle"
    /\ callers' = [callers EXCEPT ![t] = [pc |-> "lookup", text |-> text, ctx |-> c,
                                          embedding |-> NoVector]]
    /\ UNCHANGED <<model_type, embedding_cache, embCallVarsOfLastCall, restVars>>

\* if cache_key in self.embedding_cache: return self.embedding_cache[cache_key]
LookUp(t) ==
    LET key == CacheKey(callers[t].text, callers[t].ctx, model_type)
    IN  /\ callers[t].pc = "lookup"
        /\ callers' = [callers EXCEPT ![t] =
                          IF CacheHit(embedding_cache, key)
                          THEN [@ EXCEPT !.pc = "returned", !.embedding = embedding_cache[key]]
                          ELSE [@ EXCEPT !.pc = "embed"]]
        /\ UNCHANGED <<model_type, embedding_cache, embCallVarsOfLastCall, restVars>>

\* The preprocessing and the provider calls of a thread that missed the
\* cache, against a provider that behaves as p.
Embed(t, p) ==
    LET g == generate_embedding(model_type, EmptyCache, p, callers[t].text, callers[t].ctx, 0)
    IN  /\ callers[t].pc = "embed"
        /\ callers' = [callers EXCEPT ![t] =
                          IF g.raised THEN [@ EXCEPT !.pc = "raised"]
                          ELSE [@ EXCEPT !.pc = "store", !.embedding = g.ret]]
        /\ UNCHANGED <<model_type, embedding_cache, embCallVarsOfLastCall, restVars>>

\* self.embedding_cache[cache_key] = embedding; return embedding
StoreInCache(t) ==
    LET key == CacheKey(callers[t].text, callers[t].ctx, model_type)
    IN  /\ callers[t].pc = "store"
        /\ embedding_cache' = CacheStore(embedding_cache, key, callers[t].embedding)
        /\ callers' = [callers EXCEPT ![t].pc = "returned"]
        /\ UNCHANGED <<model_type, embCallVarsOfLastCall, restVars>>

\* The thread's caller has taken the vector or the exception.
Leave(t) ==
    /\ callers[t].pc \in {"returned", "raised"}
    /\ callers' = [callers EXCEPT ![t] = NoCall]
    /\ UNCHANGED <<model_type, embedding_cache, embCallVarsOfLastCall, restVars>>

InitConcurrent == EmbInit /\ FindIdle /\ RouterIdle /\ StoreIdle /\ QueryIdle

ConcurrentNext ==
    \E t \in Callers :
        \/ \E text \in Texts : EnterGenerateEmbedding(t, text, "general")
        \/ LookUp(t)
        \/ \E p \in Providers : Embed(t, p)
        \/ StoreInCache(t)
        \/ Leave(t)

SpecConcurrent == InitConcurrent /\ [][ConcurrentNext]_vars

(***************************************************************************)
(* store_pull_request for two repositories: the pull requests of both have *)
(* the number 7, and either title.                                         *)
(***************************************************************************)
TwoRepoData == [url : SearchRepoUrls, name : {"repo"}]

TwoRepoPrData == [number : PrNumbers, title : Texts, commits : {<<>>}]

InitPullRequests == EmbIdle /\ FindIdle /\ RouterIdle /\ StoreIdle /\ QueryIdle

PullRequestsNext ==
    \/ \E repo_data \in TwoRepoData : StoreRepository(repo_data)
    \/ \E pr_data \in TwoRepoPrData, repo_url \in SearchRepoUrls, p \in StoreProviders :
           StorePullRequest(pr_data, repo_url, p)

SpecPullRequests == InitPullRequests /\ [][PullRequestsNext]_vars

(***************************************************************************)
(* EnhancedGitAnalyzer._analyze_commits_detailed with a graph store        *)
(* attached (GraphDatabaseManager): for each commit, newest first, the     *)
(* store_file_change calls of its diff and then its store_commit call.     *)
(***************************************************************************)
\* GraphDatabaseManager._create_file_change (extension, size and the
\* properties of the relationship are copied like language).
create_file_change(G, commit_sha, file_data) ==
    LET c == Bound(G.Commit, commit_sha)
        props == [language |-> file_data.language]
        files == SetProps(Merge(G.File, file_data.path, props), file_data.path, props)
        f == Bound(files, file_data.path)
    IN  IF c = {} THEN G
        ELSE [G EXCEPT !.File = files, !.MODIFIES = MergeRel(@, c, f)]

RECURSIVE StoreFileChanges(_, _, _, _)
\* for diff_item in diff: ... self.graph_db.store_file_change(commit.hexsha, file_data)
StoreFileChanges(G, commit_sha, diff, i) ==
    IF i > Len(diff) THEN G
    ELSE StoreFileChanges(
             create_file_change(G, commit_sha, [path |-> diff[i], language |-> "python"]),
             commit_sha, diff, i + 1)

RECURSIVE analyze_commits_detailed(_, _, _, _, _)
\* The store after the loop of _analyze_commits_detailed has run from the
\* commit at position i of repo.iter_commits() on.
analyze_commits_detailed(G, commits, repo_url, max_commits, i) ==
    IF i > Len(commits) \/ i - 1 >= max_commits THEN G
    ELSE analyze_commits_detailed(
             create_commit(StoreFileChanges(G, commits[i].sha, commits[i].diff, 1),
                           CommitDataOf(commits[i].sha), repo_url),
             commits, repo_url, max_commits, i + 1)

\* Most commits of the repository analyzed.
MaxCommits == 3

\* parent.diff(commit), by the paths of its items.
Diffs == {<<>>, <<"a.py">>, <<"b.py">>, <<"a.py", "b.py">>}

\* repo.iter_commits(): the commits of the repository, newest first.
Repositories ==
    UNION {{[i \in 1..n |-> [sha |-> ShaNames[i], diff |-> diffs[i]]] : diffs \in [1..n -> Diffs]} :
              n \in 0..MaxCommits}

AnalyzeInit ==
    /\ graph = create_repository(EmptyGraph, [url |-> "repoA", name |-> "repo"])
    /\ st_last = NoStoreCall
    /\ driver = "connected"
    /\ tx = NoTx
    /\ qry_in \in [name : {"_analyze_commits_detailed"}, repo : Repositories,
                   repo_url : {"repoA"}, max_commits : 1..MaxCommits]
    /\ qry_out = NoQueryResult

\* One run of _analyze_commits_detailed on the repository: the first
\* analysis, or an analysis made again.
AnalyzeCommitsDetailed ==
    /\ qry_in.name = "_analyze_commits_detailed"
    /\ graph' = analyze_commits_detailed(graph, qry_in.repo, qry_in.repo_url,
                                         qry_in.max_commits, 1)
    /\ qry_out' = [done |-> TRUE, raised |-> FALSE,
                    result |-> [commits |-> SliceTo(qry_in.repo, qry_in.max_commits)]]
    /\ UNCHANGED <<embVars, findVars, routerVars, st_last, driver, tx, qry_in>>

InitAnalyze == EmbIdle /\ FindIdle /\ RouterIdle /\ AnalyzeInit

AnalyzeNext == AnalyzeCommitsDetailed

SpecAnalyze == InitAnalyze /\ [][AnalyzeNext]_vars

(***************************************************************************)
(* Claims about the EmbeddingManager.                                      *)
(***************************************************************************)
IsEmbed(e) == e.ev = "embed"

IsBatchCall(e) == e.ev = "embed_batch"

\* The provider calls for single inputs made by the last call.
EmbedCalls == SelectSeq(events, IsEmbed)

LastText == op.texts[1]

\* C1: once generate_embedding(text, context_type) has returned, every later
\* call with the same text and context_type returns the vector the first call
\* returned and contacts the provider not at all, whatever the provider does.
C1_RepeatedCallServedFromCache ==
    (op.name = "generate_embedding" /\ op.prior) =>
        /\ outcome = "returned"
        /\ ret = hist[<<LastText, op.ctx>>]
        /\ events = <<>>

\* A later call made while the provider fails every call.
C1_Witness ==
    /\ op.name = "generate_embedding" /\ op.prior
    /\ outcome = "returned"
    /\ provider = [script |-> <<>>, rest |-> FALSE]
    /\ ret = hist[<<LastText, op.ctx>>]
    /\ ret.ctx # "zero"

C3_NoStaleZeroFromCache ==
    (op.name = "generate_embedding" /\ outcome = "returned" /\ events = <<>>
        /\ ret.ctx = "zero")
    => (~nocache.raised /\ nocache.ret = ret)

\* The vector of texts[i]: the provider's vector of the processed text, or the
\* vector generate_embedding holds for the text (the per-item fallback).
IsEmbeddingOf(v, t, c) ==
    \/ /\ IsOpenAI(model_type)
       /\ v = TruncateDim(model_type, ProviderVector(model_type, ProcessedText(t, c)))
    \/ /\ IsLocal(model_type)
       /\ v = ProviderVector(model_type,
                  [text |-> t, ctx |-> c, len |-> preprocess_by_type(TextLen(t), c)])
    \/ /\ CacheKey(t, c, model_type) \in DOMAIN embedding_cache
       /\ v = embedding_cache[CacheKey(t, c, model_type)]

\* C4: generate_batch_embeddings returns one vector per input text, the i-th
\* being the embedding of the i-th text, whichever chunk calls fail; with an
\* OpenAI model it always returns.
C4_BatchKeepsCountAndOrder ==
    (op.name = "generate_batch_embeddings") =>
        /\ IsOpenAI(model_type) => outcome = "returned"
        /\ outcome = "returned" =>
              /\ Len(batch_ret) = Len(op.texts)
              /\ \A i \in 1..Len(op.texts) : IsEmbeddingOf(batch_ret[i], op.texts[i], op.ctx)

\* The second chunk fails after the first succeeded.
C4_Witness ==
    /\ op.name = "generate_batch_embeddings"
    /\ outcome = "returned"
    /\ Len(op.texts) = MaxTexts
    /\ op.texts[1] # op.texts[MaxTexts]
    /\ \E i \in 1..Len(events) : IsBatchCall(events[i]) /\ ~events[i].ok /\ events[i].idx > 0
    /\ Len(batch_ret) = MaxTexts

\* Position j (from 1) lies in the chunk of the chunk call e.
InChunk(j, e) == e.idx < j /\ j <= e.idx + e.len

\* C5: after a chunk failure only the texts of the failed chunk get per-item
\* provider calls, and the vectors of the chunks that succeeded are kept.
C5_FallbackOnlyForFailedChunk ==
    (op.name = "generate_batch_embeddings" /\ outcome = "returned") =>
        \A i \in 1..Len(events) :
            IsEmbed(events[i]) =>
                \E k \in 1..Len(events) :
                    /\ IsBatchCall(events[k]) /\ ~events[k].ok
                    /\ InChunk(events[i].idx, events[k])

(***************************************************************************)
(* Claims about find_similar.                                              *)
(***************************************************************************)
\* The similarity find_similar computes for candidate j.
CandSim(j) == calculate_similarity(fs_in.query, fs_in.embeddings[j])

\* The candidates whose similarity is at least the threshold.
Qualifying == {j \in 1..Len(fs_in.embeddings) : SimGeq(CandSim(j), fs_in.threshold)}

\* Candidate a ranks before candidate b: higher similarity, or equal
\* similarity and earlier in the candidate list.
RanksBefore(a, b) ==
    \/ SimGt(CandSim(a), CandSim(b))
    \/ SimEq(CandSim(a), CandSim(b)) /\ a < b

\* C6: every item find_similar returns has similarity >= threshold, and the
\* returned list is in non-increasing order of similarity, for every top_k.
C6_AboveThresholdAndSorted ==
    fs_done =>
        /\ \A i \in 1..Len(fs_out) :
              /\ fs_out[i].id \in 1..Len(fs_in.embeddings)
              /\ fs_out[i].similarity = CandSim(fs_out[i].id)
              /\ SimGeq(fs_out[i].similarity, fs_in.threshold)
        /\ \A i \in 1..Len(fs_out) - 1 : SimGeq(fs_out[i].similarity, fs_out[i + 1].similarity)

\* Some candidate is filtered out and two of different similarity are returned.
C6_Witness ==
    /\ fs_done
    /\ Len(fs_out) >= 2
    /\ Len(fs_out) < Len(fs_in.embeddings)
    /\ Cardinality(Qualifying) < Len(fs_in.embeddings)
    /\ SimGt(fs_out[1].similarity, fs_out[2].similarity)
    /\ fs_out[1].id > fs_out[2].id

\* C7: for top_k >= 0 the result is the first top_k qualifying candidates in
\* the order "higher similarity first, equal similarity in candidate order":
\* min(top_k, number of qualifying) items, each before the next in that order,
\* and every qualifying candidate left out behind every returned one.
C7_StableTopK ==
    (fs_done /\ fs_in.top_k >= 0) =>
        /\ Len(fs_out) = Min(fs_in.top_k, Cardinality(Qualifying))
        /\ \A i \in 1..Len(fs_out) : fs_out[i].id \in Qualifying
        /\ \A i \in 1..Len(fs_out) - 1 : RanksBefore(fs_out[i].id, fs_out[i + 1].id)
        /\ \A j \in Qualifying \ {fs_out[i].id : i \in 1..Len(fs_out)} :
              \A i \in 1..Len(fs_out) : RanksBefore(fs_out[i].id, j)

\* Two returned candidates tie and a qualifying candidate is cut off by top_k.
C7_Witness ==
    /\ fs_done
    /\ fs_in.top_k >= 0
    /\ Len(fs_out) >= 2
    /\ SimEq(fs_out[1].similarity, fs_out[2].similarity)
    /\ fs_in.embeddings[fs_out[1].id] # fs_in.embeddings[fs_out[2].id]
    /\ Cardinality(Qualifying) > Len(fs_out)

(***************************************************************************)
(* Claims about answer_question.                                           *)
(***************************************************************************)
Intents == <<"semantic", "evolution", "impact", "pattern", "collaboration">>

KeywordsOf(intent) ==
    CASE intent = "semantic" -> semantic_keywords
      [] intent = "evolution" -> evolution_keywords
      [] intent = "impact" -> impact_keywords
      [] intent = "pattern" -> pattern_keywords
      [] OTHER -> collab_keywords

\* A keyword of the intent occurs in the lower-cased question.
Mentions(intent) ==
    \E k \in 1..Len(KeywordsOf(intent)) : Contains(Lower(rq_in.question), KeywordsOf(intent)[k])

AnswerTypeOf(handler) ==
    CASE handler = "semantic" -> "semantic_search"
      [] handler = "evolution" -> "evolution_analysis"
      [] handler = "impact" -> "impact_analysis"
      [] handler = "pattern" -> "pattern_analysis"
      [] handler = "collaboration" -> "collaboration_analysis"
      [] OTHER -> "general"

\* C8: answer_question invokes exactly one handler, that of the first intent
\* in the order semantic, evolution, impact, pattern, collaboration one of
\* whose keywords occurs in the lower-cased question, and the general handler
\* when none occurs; a semantic keyword wins over every other keyword.
C8_FirstMatchingIntentHandles ==
    (rq_outcome # "asked") =>
        /\ Len(rq_handlers) = 1
        /\ \/ \E i \in 1..Len(Intents) :
                 /\ Mentions(Intents[i])
                 /\ \A j \in 1..(i - 1) : ~Mentions(Intents[j])
                 /\ rq_handlers[1] = Intents[i]
           \/ /\ \A i \in 1..Len(Intents) : ~Mentions(Intents[i])
              /\ rq_handlers[1] = "general"
        /\ Mentions("semantic") => rq_handlers[1] = "semantic"
        /\ rq_in.question = ExampleQuestion => rq_handlers[1] = "semantic"
        /\ rq_outcome = "returned" => rq_answer.answer_type = AnswerTypeOf(rq_handlers[1])

\* A question that opens with an evolution keyword and has a semantic keyword
\* behind it has gone to the semantic handler.
C8_Witness ==
    /\ rq_outcome = "returned"
    /\ Mentions("semantic") /\ Mentions("evolution")
    /\ rq_in.question[1] = "h"
    /\ rq_handlers = <<"semantic">>
    /\ rq_answer.answer_type = "semantic_search"

\* C9: with the text generator unavailable or failing, the general and the
\* impact handler still return an Answer with question, answer_type and a
\* summary of the counts of the supporting data; nothing is raised.
C9_AnswerWithoutNarrative ==
    (rq_outcome # "asked" /\ rq_in.llm \in {"none", "failing"}
        /\ rq_handlers[1] \in {"general", "impact"})
    => /\ rq_outcome = "returned"
       /\ rq_answer.question = rq_in.question
       /\ rq_answer.answer_type = AnswerTypeOf(rq_handlers[1])
       /\ rq_handlers[1] = "general" => rq_answer.summary.found = rq_in.matches

(***************************************************************************)
(* Claims about the store operations.                                      *)
(***************************************************************************)
\* At most one node per natural key.
OnePerKey(nodes) == \A n \in nodes, m \in nodes : n.key = m.key => n = m

\* Storing x again (run(S, p) is the store operation with its arguments, on
\* state S against provider p) leaves the store as the first time left it.
StoredTwiceIsStoredOnce(run(_, _)) ==
    \A p1 \in StoreProviders, p2 \in StoreProviders :
        run(run(StoreState, p1), p2).graph = run(StoreState, p1).graph

\* C10: after any sequence of store calls there is at most one Commit per
\* sha, one File per path, one Change per (commit sha, file path) and one
\* PullRequest per number, and storing an entity a second time, whatever the
\* provider does in the meantime, leaves the store equal to the store after
\* the first time.
C10_StoreIdempotentByNaturalKey ==
    /\ OnePerKey(graph.Commit)
    /\ OnePerKey(graph.File)
    /\ OnePerKey(graph.Change)
    /\ OnePerKey(graph.PullRequest)
    /\ \A commit_data \in CommitData, repo_url \in RepoUrls :
           LET run(S, p) == store_commit_with_embedding(S, commit_data, repo_url, p)
           IN  StoredTwiceIsStoredOnce(run)
    /\ \A commit_sha \in Shas, file_path \in Paths, before_code \in BeforeCodes,
          after_code \in AfterCodes :
           LET run(S, p) == store_code_change_with_analysis(S, commit_sha, file_path,
                                before_code, after_code, ChangeAnalysis, p)
           IN  StoredTwiceIsStoredOnce(run)
    /\ \A pr_data \in PrData, repo_url \in RepoUrls :
           LET run(S, p) == store_pull_request(S, pr_data, repo_url, p)
           IN  StoredTwiceIsStoredOnce(run)

\* A commit stored before has been stored again with another message, in a
\* store that holds a commit, a file, a change and a pull request.
C10_Witness ==
    /\ st_last.name = "store_commit_with_embedding"
    /\ st_last.did = "updated"
    /\ Cardinality(graph.Commit) = 1
    /\ Cardinality(graph.File) = 1
    /\ Cardinality(graph.Change) = 1
    /\ Cardinality(graph.PullRequest) = 1
    /\ graph.INCLUDES # {}

(***************************************************************************)
(* Claims about the query operations.                                      *)
(***************************************************************************)
\* The vector the last query was embedded to.
QueryVector == embedding_cache[CacheKey(qry_in.query, "commit", model_type)]

\* The commit nodes a row of the last search may stand for: commits of the
\* repository asked for, with an embedding whose cosine to the query vector
\* is the row's similarity and lies above 3/10.
CommitsBehind(row) ==
    {c \in graph.Commit :
        /\ c.key = row.sha
        /\ \E r \in graph.Repository :
               r.key = qry_in.repo_url /\ <<<<r.key, r.copy>>, <<c.key, c.copy>>>> \in graph.HAS_COMMIT
        /\ "embedding" \in DOMAIN c.props
        /\ LET d == Dot(c.props.embedding.xs, QueryVector.xs)
               nn == NormSq(c.props.embedding.xs) * NormSq(QueryVector.xs)
           IN  /\ row.similarity = [dot |-> d, nn |-> nn]
               /\ d > 0
               /\ 100 * d * d > 9 * nn}

\* C11: every result of semantic_search_commits is a commit of the repository
\* asked for that has an embedding and whose cosine similarity to the query
\* vector is above 0.3; the results are in non-increasing order of similarity,
\* no commit comes twice, and there are at most top_k of them.
C11_SearchAboveFloorOrderedLimited ==
    (qry_in.name = "semantic_search_commits" /\ qry_out.done /\ ~qry_out.raised) =>
        /\ Len(qry_out.rows) <= qry_in.top_k
        /\ \A i \in DOMAIN qry_out.rows : CommitsBehind(qry_out.rows[i]) # {}
        /\ \A i \in DOMAIN qry_out.rows, j \in DOMAIN qry_out.rows :
               /\ i < j => SimGeq(qry_out.rows[i].similarity, qry_out.rows[j].similarity)
               /\ i # j => qry_out.rows[i].sha # qry_out.rows[j].sha

\* A search has returned two commits, the more similar one first.
C11_Witness ==
    /\ qry_in.name = "semantic_search_commits" /\ qry_out.done /\ ~qry_out.raised
    /\ Len(qry_out.rows) = 2
    /\ SimGt(qry_out.rows[1].similarity, qry_out.rows[2].similarity)

\* C12: whenever a search has handed vectors to the cosine, the stored
\* embedding and the query vector of every pair have one dimension.
C12_ComparedVectorsShareDimension ==
    \A pair \in qry_out.compared : pair[1].dim = pair[2].dim

\* C13: on a VectorGraphDatabase whose connection was never established,
\* every store operation and every query raises and leaves the store as it
\* was, answer_question raises for every question, and /ask-semantic answers
\* with an error status and no answer.
C13_UnreachableStoreFailsEveryCall ==
    driver = "none" =>
        /\ graph = EmptyGraph
        /\ st_last.name # "none" => st_last.raised
        /\ qry_out.done => qry_out.raised
        /\ rq_outcome # "asked" =>
               /\ rq_outcome \in {"raised", "400", "503", "500"}
               /\ rq_answer = NoAnswer

\* With no driver, a pull request was offered to the store, contextual
\* recommendations were asked for, and /ask-semantic has answered a question
\* of the collaboration intent with status 500.
C13_Witness ==
    /\ driver = "none"
    /\ st_last.name = "store_pull_request"
    /\ qry_in.name = "get_contextual_recommendations" /\ qry_out.done
    /\ rq_handlers = <<"collaboration">> /\ rq_outcome = "500"

\* The shas of the commits a query result names.
ReturnedCommits(q, out) ==
    CASE q.name = "semantic_search_commits" -> {out.rows[i].sha : i \in DOMAIN out.rows}
      [] q.name = "identify_semantic_clusters" ->
             UNION {{c.sample_commits[i].sha : i \in DOMAIN c.sample_commits} :
                       c \in out.result.clusters}
      [] OTHER -> {}

\* The ids of the changes a query result names.
ReturnedChanges(q, out) ==
    CASE q.name = "find_similar_changes" -> {out.result.rows[i].id : i \in DOMAIN out.result.rows}
      [] q.name = "analyze_semantic_evolution" ->
             {out.result.evolution_timeline[i].id : i \in DOMAIN out.result.evolution_timeline}
      [] OTHER -> {}

\* The nodes of nodes that are there as a whole: with an embedding and with a
\* relationship of each of the types into and out of.
Whole(nodes, into, out) ==
    {n.key : n \in {m \in nodes :
        /\ "embedding" \in DOMAIN m.props
        /\ \A rels \in into : \E r \in rels : r[2] = <<m.key, m.copy>>
        /\ \A rels \in out : \E r \in rels : r[1] = <<m.key, m.copy>>}}

\* C14: whatever store operation is under way, a query that returns names
\* only commits and changes that are in the committed store as a whole (node,
\* embedding and relationships), and an aborted store operation leaves the
\* committed store as it was.
C14_QueriesSeeCommittedWholeEntities ==
    [][/\ (qry_out' # qry_out /\ ~qry_out'.raised) =>
              /\ ReturnedCommits(qry_in', qry_out') \subseteq
                     Whole(graph.Commit, {graph.HAS_COMMIT, graph.AUTHORED}, {})
              /\ ReturnedChanges(qry_in', qry_out') \subseteq
                     Whole(graph.Change, {graph.CONTAINS_CHANGE}, {graph.MODIFIES})
       /\ (tx.open /\ ~tx'.open /\ st_last'.did = "aborted") => graph' = graph]_vars

\* A search returned nothing while the transaction that writes the first
\* commit had run its statement and was not yet committed.
C14_Witness ==
    /\ tx.open /\ tx.todo = <<>> /\ tx.call = "store_commit_with_embedding"
    /\ graph.Commit = {}
    /\ qry_in.name = "semantic_search_commits" /\ qry_out.done /\ ~qry_out.raised
    /\ qry_out.rows = <<>>

(***************************************************************************)
(* Claims about identify_semantic_clusters.                                *)
(***************************************************************************)
\* The commits of the repository asked for that have an embedding.
EmbeddedCommits ==
    {c \in graph.Commit :
        /\ "embedding" \in DOMAIN c.props
        /\ \E r \in graph.Repository :
               r.key = qry_in.repo_url /\ <<<<r.key, r.copy>>, <<c.key, c.copy>>>> \in graph.HAS_COMMIT}

ClustersAnswered == qry_in.name = "identify_semantic_clusters" /\ qry_out.done

\* C15: identify_semantic_clusters returns clusters only for more than 5
\* embedded commits; for 5 or fewer it returns, without raising, a result
\* with num_clusters = 0 and no clusters.
C15_ClustersOnlyAboveFive ==
    ClustersAnswered =>
        /\ (~qry_out.raised /\ qry_out.result.clusters # {}) => Cardinality(EmbeddedCommits) > 5
        /\ Cardinality(EmbeddedCommits) <= 5 =>
               /\ ~qry_out.raised
               /\ qry_out.result.num_clusters = 0
               /\ qry_out.result.clusters = {}
               /\ qry_out.result.total_commits_analyzed = Cardinality(EmbeddedCommits)

\* Clusters were asked for a repository with exactly 5 embedded commits and a
\* sixth commit without embedding: the result has no cluster.
C15_Witness ==
    /\ ClustersAnswered /\ ~qry_out.raised
    /\ Cardinality(EmbeddedCommits) = 5
    /\ Cardinality(graph.Commit) = 6
    /\ qry_out.result.num_clusters = 0

RECURSIVE SumOfSizes(_)
\* The sum of the sizes of the clusters cs.
SumOfSizes(cs) ==
    IF cs = {} THEN 0
    ELSE LET c == CHOOSE x \in cs : TRUE IN c.size + SumOfSizes(cs \ {c})

\* The positions in the corpus of the commits labelled id.
PositionsOf(commits, id) == {i \in DOMAIN commits : commits[i].cluster = id}

\* C16: when clusters are computed, every commit of the corpus has one
\* cluster of the result (the one of its label), the size of a cluster is the
\* number of commits with its id, the sizes sum to total_commits_analyzed,
\* and the sample of a cluster holds its first min(5, size) commits in the
\* order of the corpus.
C16_ClustersPartitionCorpus ==
    (ClustersAnswered /\ ~qry_out.raised /\ qry_out.result.clusters # {}) =>
        LET commits == qry_out.locals.commits
            clusters == qry_out.result.clusters
        IN  /\ {commits[i].sha : i \in DOMAIN commits} = {c.key : c \in EmbeddedCommits}
            /\ Len(commits) = Cardinality(EmbeddedCommits)
            /\ qry_out.result.total_commits_analyzed = Len(commits)
            /\ \A i \in DOMAIN commits :
                   Cardinality({c \in clusters : c.cluster_id = commits[i].cluster}) = 1
            /\ SumOfSizes(clusters) = Len(commits)
            /\ \A c \in clusters :
                   LET at == PositionsOf(commits, c.cluster_id)
                       k == IF c.size < 5 THEN c.size ELSE 5
                   IN  /\ c.size = Cardinality(at)
                       /\ Len(c.sample_commits) = k
                       /\ \A j \in 1..k :
                              \E i \in at :
                                  /\ c.sample_commits[j] = commits[i]
                                  /\ Cardinality({h \in at : h < i}) = j - 1

\* Six commits were clustered into two clusters, of 4 and of 2 commits, the
\* first two commits of the corpus in different clusters.
C16_Witness ==
    /\ ClustersAnswered /\ ~qry_out.raised
    /\ Cardinality(qry_out.result.clusters) = 2
    /\ \E c \in qry_out.result.clusters : c.size = 4
    /\ qry_out.locals.commits[1].cluster # qry_out.locals.commits[2].cluster

\* The names a result could report the dominant cluster under.
DominantKeys == {"dominant_pattern", "dominant_cluster", "dominant_cluster_id", "dominant"}

\* C17: a result of identify_semantic_clusters with clusters reports the
\* dominant cluster id, which is the id of a cluster of the greatest size.
C17_ResultReportsDominantCluster ==
    (ClustersAnswered /\ ~qry_out.raised /\ qry_out.result.clusters # {}) =>
        \E key \in DominantKeys \cap DOMAIN qry_out.result :
            \E c \in qry_out.result.clusters :
                /\ c.cluster_id = qry_out.result[key]
                /\ \A d \in qry_out.result.clusters : d.size <= c.size

(***************************************************************************)
(* Claims about analyze_semantic_evolution and _interpret_drift.           *)
(***************************************************************************)
EvolutionAnswered ==
    qry_in.name = "analyze_semantic_evolution" /\ qry_out.done /\ ~qry_out.raised

\* The changes of the file asked for that have an embedding.
EmbeddedChanges ==
    {ch \in graph.Change :
        /\ "embedding" \in DOMAIN ch.props
        /\ \E f \in graph.File :
               f.key = qry_in.file_path /\ <<<<ch.key, ch.copy>>, <<f.key, f.copy>>>> \in graph.MODIFIES}

\* The interpretations of the four drift bands.
DriftBands ==
    {"Stable: minimal semantic changes over time",
     "Evolving: moderate semantic evolution",
     "Significant evolution: substantial semantic changes",
     "Major transformation: fundamental semantic shifts"}

\* C18: for a file with fewer than 2 embedded changes the drift returned is 0
\* and the interpretation is none of the four drift bands.
C18_InsufficientHistoryIsNoBand ==
    (EvolutionAnswered /\ Cardinality(EmbeddedChanges) < 2) =>
        /\ qry_out.result.semantic_drift.num = 0
        /\ qry_out.result.drift_interpretation \notin DriftBands

\* C19: a drift of k hundredths is interpreted as stable for k < 20, evolving
\* for 20 <= k < 50, significant for 50 <= k < 80 and major for 80 <= k <= 100.
C19_DriftBands ==
    (qry_in.name = "_interpret_drift" /\ qry_out.done) =>
        LET k100 == 100 * qry_in.drift.num
            den == qry_in.drift.den
        IN  qry_out.result.drift_interpretation =
                IF k100 < 20 * den THEN "Stable: minimal semantic changes over time"
                ELSE IF k100 < 50 * den THEN "Evolving: moderate semantic evolution"
                ELSE IF k100 < 80 * den
                THEN "Significant evolution: substantial semantic changes"
                ELSE "Major transformation: fundamental semantic shifts"

\* The drift 0.2 was interpreted as evolving.
C19_Witness ==
    /\ qry_in.name = "_interpret_drift" /\ qry_out.done
    /\ 5 * qry_in.drift.num = qry_in.drift.den
    /\ qry_out.result.drift_interpretation = "Evolving: moderate semantic evolution"

\* 25 times the cosine of a and b, 0 if one of them is the zero vector; the
\* norms of the vectors of the model are 1 and 5.
CosineIn25ths(a, b) ==
    IF Dot(a, a) = 0 \/ Dot(b, b) = 0 THEN 0
    ELSE LET na == CHOOSE r \in 1..5 : r * r = Dot(a, a)
             nb == CHOOSE r \in 1..5 : r * r = Dot(b, b)
         IN  (25 * Dot(a, b)) \div (na * nb)

RECURSIVE DriftSumIn25ths(_, _)
\* The sum over the positions from i on of 1 - cosine(e[1], e[i]), in 25ths.
DriftSumIn25ths(e, i) ==
    IF i > Len(e) THEN 0
    ELSE (25 - CosineIn25ths(e[1], e[i])) + DriftSumIn25ths(e, i + 1)

\* C20: for a file with n >= 2 embedded changes, the timeline holds each of
\* them once in the order of the commit timestamps, and the drift returned is
\* the mean over the changes after the first of 1 - cosine(first, change).
C20_DriftIsMeanDistanceFromFirst ==
    (EvolutionAnswered /\ Cardinality(EmbeddedChanges) >= 2) =>
        LET timeline == qry_out.result.evolution_timeline
            e == [i \in DOMAIN timeline |-> timeline[i].embedding.xs]
            n == Len(timeline)
            drift == qry_out.result.semantic_drift
        IN  /\ n = Cardinality(EmbeddedChanges)
            /\ {timeline[i].id : i \in 1..n} = {ch.key : ch \in EmbeddedChanges}
            /\ \A i \in 1..n : \E ch \in EmbeddedChanges :
                   ch.key = timeline[i].id /\ ch.props.embedding.xs = e[i]
            /\ \A i \in 1..n, j \in 1..n : i < j => timeline[i].timestamp <= timeline[j].timestamp
            /\ drift.num * 25 * (n - 1) = drift.den * DriftSumIn25ths(e, 2)

\* The drift of three changes was returned, the change stored first not the
\* earliest, and the drift is neither 0 nor 1.
C20_Witness ==
    /\ EvolutionAnswered
    /\ qry_out.result.total_changes = 3
    /\ qry_out.result.evolution_timeline[1].id # <<"sha1", "a.py">>
    /\ qry_out.result.evolution_timeline[1].timestamp < qry_out.result.evolution_timeline[2].timestamp
    /\ qry_out.result.semantic_drift.num \notin {0, qry_out.result.semantic_drift.den}

(***************************************************************************)
(* Claims about clustering with more clusters asked for than embeddings.   *)
(***************************************************************************)
\* C21: for every list of embeddings and every k above its length,
\* cluster_embeddings completes without error, uses len(embeddings) clusters
\* and returns one cluster id per input embedding.
C21_MoreClustersThanEmbeddings ==
    (/\ qry_in.name = "cluster_embeddings"
     /\ qry_out.done
     /\ qry_in.n_clusters > Len(qry_in.embeddings))
    => /\ ~qry_out.raised
       /\ qry_out.result.n_clusters = Len(qry_in.embeddings)
       /\ Len(qry_out.result.clusters) = Len(qry_in.embeddings)

(***************************************************************************)
(* Claims about invalid input.                                             *)
(***************************************************************************)
\* C22: generate_embedding with an empty text and find_similar with a
\* negative top_k each signal an error instead of returning a vector or a
\* list.  (FindSimilar ends in one way only, by returning its list.)
C22_InvalidInputIsReported ==
    /\ (/\ op.name = "generate_embedding"
        /\ outcome # "idle"
        /\ TextLen(op.texts[1]) = 0)
       => outcome = "raised" /\ ret = NoVector
    /\ ~(fs_done /\ fs_in.top_k < 0)

(***************************************************************************)
(* Claims about find_similar_changes.                                      *)
(***************************************************************************)
\* The embedded changes of the file the query names, each with the
\* timestamp of its commit.
ChangesOfQueriedFile ==
    UNION {{[embedding |-> o[1].props.embedding, timestamp |-> c.props.timestamp] :
               c \in {n \in graph.Commit : <<Ref(n), Ref(o[1])>> \in graph.CONTAINS_CHANGE}} :
           o \in {x \in ChangesOfFiles(graph) :
                     x[2].key = qry_in.file_path /\ HasEmbedding(x[1])}}

\* C23: find_similar_changes(file_path) takes as its query vector the
\* embedding of the most recent change of file_path, whatever the history of
\* the file, and no row of its result refers to file_path itself.
C23_ReferenceIsMostRecentChange ==
    (/\ qry_in.name = "find_similar_changes"
     /\ qry_out.done
     /\ ~qry_out.raised
     /\ ChangesOfQueriedFile # {})
    => /\ \E r \in ChangesOfQueriedFile :
              /\ \A o \in ChangesOfQueriedFile : o.timestamp <= r.timestamp
              /\ qry_out.locals.reference_embedding = r.embedding
       /\ \A i \in DOMAIN qry_out.result.rows : qry_out.result.rows[i].file # qry_in.file_path

(***************************************************************************)
(* Claims about concurrent calls of generate_embedding.                    *)
(***************************************************************************)
\* A step leaves every value the cache holds in place.
CacheValuesKept ==
    \A k \in DOMAIN embedding_cache :
        k \in DOMAIN embedding_cache' /\ embedding_cache'[k] = embedding_cache[k]

\* A thread that has returned holds the value the cache has for its key.
ReturnedWhatIsCached ==
    \A t \in Callers :
        callers[t].pc = "returned"
        => LET key == CacheKey(callers[t].text, callers[t].ctx, model_type)
           IN  CacheHit(embedding_cache, key) /\ embedding_cache[key] = callers[t].embedding

\* C24: under concurrent generate_embedding calls the cache is an atomic
\* insert-if-absent: no step replaces the value of a key by a different
\* value, and every caller returns the value the cache holds for its key.
C24_CacheIsInsertIfAbsent == []ReturnedWhatIsCached /\ [][CacheValuesKept]_vars

(***************************************************************************)
(* Claims about the keyword sets of the router.                            *)
(***************************************************************************)
\* The keywords the five sets are said to hold.
ListedKeywords(intent) ==
    CASE intent = "semantic" ->
             {<<"s", "i", "m", "i", "l", "a", "r">>,
              <<"l", "i", "k", "e">>,
              <<"r", "e", "l", "a", "t", "e", "d">>,
              <<"s", "a", "m", "e", " ", "a", "s">>,
              <<"c", "o", "m", "p", "a", "r", "a", "b", "l", "e">>}
      [] intent = "evolution" ->
             {<<"e", "v", "o", "l", "v", "e">>,
              <<"h", "i", "s", "t", "o", "r", "y">>,
              <<"t", "i", "m", "e", "l", "i", "n", "e">>,
              <<"d", "r", "i", "f", "t">>}
      [] intent = "impact" ->
             {<<"i", "m", "p", "a", "c", "t">>,
              <<"a", "f", "f", "e", "c", "t">>,
              <<"c", "o", "n", "s", "e", "q", "u", "e", "n", "c", "e">>,
              <<"c", "a", "u", "s", "e">>}
      [] intent = "pattern" ->
             {<<"p", "a", "t", "t", "e", "r", "n">>,
              <<"t", "r", "e", "n", "d">>,
              <<"c", "o", "m", "m", "o", "n">>,
              <<"f", "r", "e", "q", "u", "e", "n", "t">>}
      [] OTHER ->
             {<<"w", "h", "o">>,
              <<"a", "u", "t", "h", "o", "r">>,
              <<"c", "o", "n", "t", "r", "i", "b", "u", "t", "o", "r">>,
              <<"t", "e", "a", "m">>}

\* A listed keyword of the intent occurs in the lower-cased question.
MentionsListed(intent) ==
    \E keyword \in ListedKeywords(intent) : Contains(Lower(rq_in.question), keyword)

\* C25: the five keyword sets of the router are exactly the listed ones: a
\* question is answered by the handler of the first intent one of whose
\* listed keywords it contains as a substring, and a question that contains
\* none of the listed keywords is answered by the general handler.
C25_KeywordSetsAreTheListed ==
    (rq_outcome # "asked") =>
        \/ \E i \in 1..Len(Intents) :
               /\ MentionsListed(Intents[i])
               /\ \A j \in 1..(i - 1) : ~MentionsListed(Intents[j])
               /\ rq_handlers = <<Intents[i]>>
        \/ /\ \A i \in 1..Len(Intents) : ~MentionsListed(Intents[i])
           /\ rq_handlers = <<"general">>

(***************************************************************************)
(* Claims about what a store call leaves in the store.                     *)
(***************************************************************************)
\* A node of nodes has the key and an embedding.
HoldsEmbedded(nodes, key) == \E n \in nodes : n.key = key /\ HasEmbedding(n)

\* C26: when store_commit_with_embedding or store_pull_request returns
\* without signalling an error, the store holds a Commit (PullRequest) node
\* with the given key and its embedding, whatever the store held before,
\* also when the repository url was never stored.
C26_ReturnedMeansStored ==
    [][/\ \A commit_data \in CommitData, repo_url \in RepoUrls, p \in StoreProviders :
              (StoreCommitWithEmbedding(commit_data, repo_url, p) /\ ~st_last'.raised)
              => HoldsEmbedded(graph'.Commit, commit_data.sha)
       /\ \A pr_data \in PrData, repo_url \in RepoUrls, p \in StoreProviders :
              (StorePullRequest(pr_data, repo_url, p) /\ ~st_last'.raised)
              => HoldsEmbedded(graph'.PullRequest, pr_data.number)]_vars

\* The repositories the pull request node pr is linked to in store G.
ReposOfPr(G, pr) == {rel[1] : rel \in {x \in G.HAS_PR : x[2] = Ref(pr)}}

\* C27: store_pull_request for one repository never changes the stored data
\* of a pull request of another repository: that pull request keeps its
\* title, description, state and embedding and its repository.
C27_OtherRepositoriesPrKept ==
    [][\A pr_data \in TwoRepoPrData, repo_url \in SearchRepoUrls, p \in StoreProviders :
           StorePullRequest(pr_data, repo_url, p)
           => \A pr \in graph.PullRequest :
                  (ReposOfPr(graph, pr) # {} /\ \A r \in ReposOfPr(graph, pr) : r[1] # repo_url)
                  => /\ pr \in graph'.PullRequest
                     /\ ReposOfPr(graph', pr) = ReposOfPr(graph, pr)]_vars

(***************************************************************************)
(* Claims about the analysis of the commits.                               *)
(***************************************************************************)
\* C28: after _analyze_commits_detailed has processed a commit with a graph
\* store attached, the store holds a MODIFIES relation from that commit to
\* each file the commit changed, also on the first analysis of a repository.
C28_AnalyzedCommitModifiesItsFiles ==
    (qry_in.name = "_analyze_commits_detailed" /\ qry_out.done)
    => \A i \in DOMAIN qry_out.result.commits :
           \A j \in DOMAIN qry_out.result.commits[i].diff :
               \E c \in graph.Commit, f \in graph.File :
                   /\ c.key = qry_out.result.commits[i].sha
                   /\ f.key = qry_out.result.commits[i].diff[j]
                   /\ <<Ref(c), Ref(f)>> \in graph.MODIFIES

(***************************************************************************)
(* Claims about the numbers a result reports.                              *)
(***************************************************************************)
\* C29: in every result of identify_semantic_clusters, num_clusters equals
\* the number of entries of the clusters list, for every cluster assignment
\* the clustering step can return.
C29_NumClustersCountsTheClusters ==
    (ClustersAnswered /\ ~qry_out.raised)
    => qry_out.result.num_clusters = Cardinality(qry_out.result.clusters)

\* C30: the semantic_drift returned by analyze_semantic_evolution lies within
\* [0, 1], for every sequence of stored embeddings of the file.
C30_DriftWithinUnitInterval ==
    EvolutionAnswered
    => /\ 0 <= qry_out.result.semantic_drift.num
       /\ qry_out.result.semantic_drift.num <= qry_out.result.semantic_drift.den

====
